---------------------------- MODULE Spec2Model ----------------------------
(***************************************************************************)
(* A model of the filter kanban helper: ProjectManager (projects.py),      *)
(* StoryManager (stories.py) and the `story move` command (story_cli.py).  *)
(*                                                                         *)
(* The state is the .filter directory tree of one project directory plus   *)
(* the position and locals of each caller.  Every filesystem call of the   *)
(* code is one step, so the states inside create_story, move_story,        *)
(* delete_story and create_project_structure are states of the model: a    *)
(* step is one call that changes the filesystem, with the checks the code  *)
(* makes around it.                                                        *)
(*                                                                         *)
(* Filesystem errors: a call that can raise OSError may fail at any time   *)
(* (at most MaxFaults times in a behaviour).  A failed call leaves the     *)
(* filesystem as it was before the call.                                   *)
(*                                                                         *)
(* Specifications.  Spec is the sequential use of every operation in one   *)
(* project.  SpecEdit adds one edit of config.yml from outside between two *)
(* commands, with at most one failing call.  SpecPrefix derives the prefix *)
(* for many directory names.  SpecTitle creates and lists a story for many *)
(* titles.  SpecDelete deletes a story that is linked in several stages.   *)
(* SpecList lists and deletes in a project whose stage directories also    *)
(* hold regular files, and dangling links after a delete under an edited   *)
(* stage list.  SpecFirst creates a project and its first stories for      *)
(* several directory names.  SpecConc runs create_story, and SpecMove the  *)
(* move command, from two callers at once.  SpecLive is Spec with one      *)
(* failing call less and weak fairness on the statements of a running     *)
(* call.                                                                   *)
(*                                                                         *)
(* Not modelled: how a command line spells the project path (both managers *)
(* see the same project_path.name), stage entries whose name does not end  *)
(* in .md, a config.yml whose YAML parses to something other than a        *)
(* mapping, the created_at timestamp of the configuration record, the      *)
(* text of log lines and messages (a message is modelled by its kind), and *)
(* the story template below the heading line.                              *)
(***************************************************************************)
EXTENDS Integers, Sequences, FiniteSets, TLC

(***************************************************************************)
(* Bounds of the model.                                                    *)
(***************************************************************************)
\* create_story is not started once last_story_number, or the number of
\* identifiers allocated so far, has reached this value
MaxStories == 2
\* number of filesystem calls that may fail in one behaviour
MaxFaults == 2

\* the callers; the sequential specification uses SeqProcs only
Procs == {1, 2}
SeqProcs == {1}

\* titles passed to create_story
Titles == { <<"f", "i", "x">> }

\* stage names passed to create_story and move; "bogus" is not a stage
DefaultStages == <<"planning", "in-progress", "testing", "pr", "complete">>
StageInputs == {"planning", "in-progress", "testing", "pr", "complete", "bogus"}

\* project directory names (sequences of characters)
ProjectNames == { <<"M", "y", "-", "a", "p", "p", "_", "2">> }

(***************************************************************************)
(* Characters and prefix derivation.                                       *)
(***************************************************************************)
LowerLetters == <<"a","b","c","d","e","f","g","h","i","j","k","l","m",
                  "n","o","p","q","r","s","t","u","v","w","x","y","z">>
UpperLetters == <<"A","B","C","D","E","F","G","H","I","J","K","L","M",
                  "N","O","P","Q","R","S","T","U","V","W","X","Y","Z">>
Digits == {"0","1","2","3","4","5","6","7","8","9"}

\* the index of letter c in alphabet abc, 0 when it is not in it
IndexIn(abc, c) ==
    IF \E i \in 1..Len(abc) : abc[i] = c
    THEN CHOOSE i \in 1..Len(abc) : abc[i] = c
    ELSE 0

\* str.lower() and str.upper() on one ASCII character
LowerChar(c) == IF IndexIn(UpperLetters, c) > 0 THEN LowerLetters[IndexIn(UpperLetters, c)] ELSE c
UpperChar(c) == IF IndexIn(LowerLetters, c) > 0 THEN UpperLetters[IndexIn(LowerLetters, c)] ELSE c
LowerStr(s) == [i \in 1..Len(s) |-> LowerChar(s[i])]
UpperStr(s) == [i \in 1..Len(s) |-> UpperChar(s[i])]

\* the character class [-_\d]
IsSuffixChar(c) == c = "-" \/ c = "_" \/ c \in Digits

\* s without its maximal trailing run of [-_\d]
RECURSIVE StripRun(_)
StripRun(s) ==
    IF Len(s) > 0 /\ IsSuffixChar(s[Len(s)])
    THEN StripRun(SubSeq(s, 1, Len(s) - 1))
    ELSE s

\* re.sub(r"[-_\d]+$", "", s).  Without re.MULTILINE, $ matches at the end of
\* the string and also just before a line break that ends the string, so the
\* run in front of a final line break is removed and the line break stays.
StripSuffix(s) ==
    IF Len(s) > 0 /\ s[Len(s)] = "\n"
    THEN StripRun(SubSeq(s, 1, Len(s) - 1)) \o <<"\n">>
    ELSE StripRun(s)

\* str.ljust(5, "X")
PrefixLen == 5
RECURSIVE LJust(_)
LJust(s) == IF Len(s) >= PrefixLen THEN s ELSE LJust(Append(s, "X"))

\* mutant of GeneratePrefix: a short name is not padded
GeneratePrefixNoPad(project_name) ==
    LET clean_name == StripSuffix(LowerStr(project_name))
    IN  IF Len(clean_name) >= PrefixLen
        THEN UpperStr(SubSeq(clean_name, 1, PrefixLen))
        ELSE UpperStr(clean_name)

\* StoryManager._generate_prefix (stories.py lines 95-111)
GeneratePrefix(project_name) ==
    LET clean_name == StripSuffix(LowerStr(project_name))
    IN  IF Len(clean_name) >= PrefixLen
        THEN UpperStr(SubSeq(clean_name, 1, PrefixLen))
        ELSE LJust(UpperStr(clean_name))

\* ProjectManager._generate_prefix (projects.py lines 159-175)
ProjectGeneratePrefix(project_name) ==
    LET clean_name == StripSuffix(LowerStr(project_name))
    IN  IF Len(clean_name) >= PrefixLen
        THEN UpperStr(SubSeq(clean_name, 1, PrefixLen))
        ELSE LJust(UpperStr(clean_name))

(***************************************************************************)
(* Story identifiers.  The string "{prefix}-{number}" is modelled by the   *)
(* pair: the number is the text after the last hyphen, so two pairs give   *)
(* the same string only when they are equal.                               *)
(***************************************************************************)
MkId(prefix, n) == [prefix |-> prefix, num |-> n]
NoId == MkId(<< >>, 0)

\* str(n) for n >= 0
DigitChars == <<"0","1","2","3","4","5","6","7","8","9">>
RECURSIVE Decimal(_)
Decimal(n) ==
    IF n < 10 THEN <<DigitChars[n + 1]>>
    ELSE Decimal(n \div 10) \o <<DigitChars[(n % 10) + 1]>>

\* f"{prefix}-{number}"
IdString(id) == id.prefix \o <<"-">> \o Decimal(id.num)

(***************************************************************************)
(* Story files.  Title extraction reads the first line that starts with    *)
(* "# ", and the generated document starts with such a line, so a story    *)
(* file is modelled by its first line, as read_text() and split("\n") give *)
(* it: read_text() opens the file with universal newlines, which turns a   *)
(* carriage return into a line break.                                      *)
(***************************************************************************)
LineBreaks == {"\n", "\r"}

\* s up to its first line break
FirstLine(s) ==
    IF \E i \in 1..Len(s) : s[i] \in LineBreaks
    THEN SubSeq(s, 1, (CHOOSE i \in 1..Len(s) :
                         s[i] \in LineBreaks /\ \A k \in 1..(i - 1) : s[k] \notin LineBreaks) - 1)
    ELSE s

\* _generate_story_content (stories.py line 274): the line "# {story_id}: {title}"
GenerateStoryContent(story_id, title) ==
    FirstLine(<<"#", " ">> \o IdString(story_id) \o <<":", " ">> \o title)

\* str.strip()
Whitespace == {" ", "\t", "\n", "\r", "\f"}
RECURSIVE StripLeft(_)
StripLeft(s) == IF Len(s) > 0 /\ s[1] \in Whitespace THEN StripLeft(Tail(s)) ELSE s
RECURSIVE StripRight(_)
StripRight(s) ==
    IF Len(s) > 0 /\ s[Len(s)] \in Whitespace THEN StripRight(SubSeq(s, 1, Len(s) - 1)) ELSE s
Strip(s) == StripRight(StripLeft(s))

\* the positions where ": " starts in s
SeparatorAt(s) == {i \in 1..(Len(s) - 1) : s[i] = ":" /\ s[i + 1] = " "}

\* mutant of ExtractTitle: the heading is split at its last ": "
ExtractTitleLast(heading) ==
    LET title_part == Strip(SubSeq(heading, 3, Len(heading)))
        seps == SeparatorAt(title_part)
    IN  IF seps # {}
        THEN SubSeq(title_part, (CHOOSE i \in seps : \A k \in seps : i >= k) + 2, Len(title_part))
        ELSE title_part

\* _extract_title_from_story (stories.py lines 308-316) on a file whose first
\* line is heading (a line that starts with "# ")
ExtractTitle(heading) ==
    LET title_part == Strip(SubSeq(heading, 3, Len(heading)))
        seps == SeparatorAt(title_part)
    IN  IF seps # {}
        THEN SubSeq(title_part, (CHOOSE i \in seps : \A k \in seps : i <= k) + 2, Len(title_part))
        ELSE title_part

(***************************************************************************)
(* The state.                                                              *)
(***************************************************************************)
VARIABLES
    project_name,   \* basename of the project directory
    filter_dir,     \* .filter exists
    kanban_dir,     \* .filter/kanban exists
    stories_dir,    \* .filter/stories exists
    stage_dirs,     \* the names s for which .filter/kanban/s exists
    config,         \* .filter/config.yml
    readme,         \* .filter/README.md exists
    stories,        \* .filter/stories/<id>.md: story id -> first line of the file
    links,          \* symlinks .filter/kanban/<stage>/<id>.md
    plain,          \* regular files .filter/kanban/<stage>/<id>.md (never made by the program)
    pc,             \* per caller: the statement it is at
    loc,            \* per caller: arguments and locals of the running operation
    ret,            \* per caller: what the operation it has just completed returned
    faults,         \* filesystem calls that have failed so far
    edited,         \* the configuration file has been changed from outside
    issued,         \* history: numbers returned by _get_next_story_number
    fresh,          \* history: project created, then only successful create_story
    rets,           \* history: ids returned by create_story while fresh
    deleted         \* history: ids whose delete_story returned success

fs == <<filter_dir, kanban_dir, stories_dir, stage_dirs, config, readme, stories, links, plain>>
hist == <<issued, fresh, rets, deleted>>
vars == <<project_name, fs, pc, loc, ret, faults, edited, hist>>


(***************************************************************************)
(* The configuration record.  keys is the set of keys the file holds; a    *)
(* field whose key is absent has no meaning.                               *)
(***************************************************************************)
ConfigKeys == {"project_name", "prefix", "last_story_number", "kanban_stages"}

AbsentConfig ==
    [state |-> "absent", keys |-> {}, project_name |-> << >>, prefix |-> << >>,
     last_story_number |-> 0, kanban_stages |-> << >>]

\* default_config of StoryManager._load_config for project directory name
DefaultConfig(name) ==
    [state |-> "valid", keys |-> ConfigKeys, project_name |-> name,
     prefix |-> GeneratePrefix(name), last_story_number |-> 0,
     kanban_stages |-> DefaultStages]

\* mutant of GenerateConfigContent: the counter of a new project starts at 1
GenerateConfigContentFromOne(name) ==
    [state |-> "valid", keys |-> ConfigKeys, project_name |-> name,
     prefix |-> ProjectGeneratePrefix(name), last_story_number |-> 1,
     kanban_stages |-> DefaultStages]

\* ProjectManager._generate_config_content for project directory name
GenerateConfigContent(name) ==
    [state |-> "valid", keys |-> ConfigKeys, project_name |-> name,
     prefix |-> ProjectGeneratePrefix(name), last_story_number |-> 0,
     kanban_stages |-> DefaultStages]

\* mutant of MergeDefaults: a file that lacks a key is replaced by the defaults
MergeDefaultsWhole(c, d) == IF c.keys = ConfigKeys THEN [c EXCEPT !.state = "valid"] ELSE d

\* the merge loop of _load_config: a key the file lacks gets the default value
MergeDefaults(c, d) ==
    [state |-> "valid", keys |-> ConfigKeys,
     project_name |-> IF "project_name" \in c.keys THEN c.project_name ELSE d.project_name,
     prefix |-> IF "prefix" \in c.keys THEN c.prefix ELSE d.prefix,
     last_story_number |-> IF "last_story_number" \in c.keys
                           THEN c.last_story_number ELSE d.last_story_number,
     kanban_stages |-> IF "kanban_stages" \in c.keys THEN c.kanban_stages ELSE d.kanban_stages]

\* what _load_config returns when it does not raise
LoadedConfig(c, name) ==
    IF c.state = "valid" THEN MergeDefaults(c, DefaultConfig(name)) ELSE DefaultConfig(name)

\* mutant of ConfigAfterLoad: the defaults are returned and never written
ConfigAfterLoadNoWrite(c, name, fail) == c

\* mutant of ConfigAfterLoad: a file that cannot be parsed is replaced too
ConfigAfterLoadRepair(c, name, fail) ==
    IF c.state \in {"absent", "corrupt"} /\ ~fail THEN DefaultConfig(name) ELSE c

\* the file after _load_config: an absent file is written with the defaults,
\* unless that write fails (fail)
ConfigAfterLoad(c, name, fail) ==
    IF c.state = "absent" /\ ~fail THEN DefaultConfig(name) ELSE c

\* _load_config raises exactly when its _save_config of the defaults fails
LoadRaises(c, fail) == c.state = "absent" /\ fail

\* whether _load_config makes a filesystem call that writes
LoadWrites(c) == c.state = "absent"

\* the members of a sequence
Range(s) == {s[i] : i \in 1..Len(s)}

(***************************************************************************)
(* Locals and results.                                                     *)
(***************************************************************************)
\* saves is a history field: the number of identifiers allocated so far when
\* the running create_story loaded the configuration for its allocation;
\* found is a history field: the state of the configuration file ("valid",
\* "absent", "corrupt") when the running create_story was invoked
NoLoc == [op |-> "none", id |-> NoId, stage |-> "", title |-> << >>, i |-> 0,
          cfg |-> AbsentConfig, removed |-> << >>, saves |-> 0, found |-> ""]

NoInfo == [total_stories |-> 0, stage_total |-> 0]

\* a (success, message) result; msg is the kind of the message
Result(op, ok, msg, id, stage) ==
    [op |-> op, ok |-> ok, msg |-> msg, id |-> id, stage |-> stage,
     count |-> 0, list |-> << >>, raised |-> FALSE, info |-> NoInfo, cfg |-> AbsentConfig,
     removed |-> << >>, title |-> << >>]

NoRet == Result("none", FALSE, "", NoId, "")

\* no operation is running: every caller is idle or holds a result
AllIdle == \A q \in Procs : pc[q] \in {"idle", "done"}

\* whether the next fallible filesystem call fails
FaultChoices == IF faults < MaxFaults THEN {FALSE, TRUE} ELSE {FALSE}
Count(fail) == IF fail THEN faults + 1 ELSE faults

Goto(p, label, l) ==
    /\ pc' = [pc EXCEPT ![p] = label]
    /\ loc' = [loc EXCEPT ![p] = l]
    /\ ret' = [ret EXCEPT ![p] = NoRet]

\* the operation returns r; the caller holds the result (pc "done") until it
\* has reported it
Return(p, r) ==
    /\ pc' = [pc EXCEPT ![p] = "done"]
    /\ loc' = [loc EXCEPT ![p] = NoLoc]
    /\ ret' = [ret EXCEPT ![p] = r]

\* the command reports the result and ends (click.echo of the message, e.g.
\* story_cli.py lines 39-45); the caller can start the next operation
Finish(p) ==
    /\ pc[p] = "done"
    /\ pc' = [pc EXCEPT ![p] = "idle"]
    /\ ret' = [ret EXCEPT ![p] = NoRet]
    /\ UNCHANGED <<project_name, edited, fs, loc, faults, hist>>

\* nothing exists yet and no caller is running
InitState ==
    /\ filter_dir = FALSE
    /\ kanban_dir = FALSE
    /\ stories_dir = FALSE
    /\ stage_dirs = {}
    /\ config = AbsentConfig
    /\ readme = FALSE
    /\ stories = << >>
    /\ links = {}
    /\ plain = {}
    /\ pc = [p \in Procs |-> "idle"]
    /\ loc = [p \in Procs |-> NoLoc]
    /\ ret = [p \in Procs |-> NoRet]
    /\ edited = FALSE
    /\ issued = << >>
    /\ fresh = FALSE
    /\ rets = << >>
    /\ deleted = {}

Init == project_name \in ProjectNames /\ InitState /\ faults = 0

(***************************************************************************)
(* ProjectManager.create_project_structure                                 *)
(***************************************************************************)
\* mutant of ProjectAlreadyExists: the check looks for the configuration file
ProjectAlreadyExistsByConfig == config.state # "absent"

\* projects.py line 37: the state directory already exists
ProjectAlreadyExists == filter_dir

\* mutant of CreationOrder: the config record is written right after the
\* state directory is made
CreationOrderConfigEarly ==
    <<"cp_filter", "cp_config", "cp_kanban", "cp_stories", "cp_stage", "cp_readme">>

\* the order of the statements of lines 41-76: state directory, kanban
\* directory, stories directory, stage directories, config record, README
CreationOrder ==
    <<"cp_filter", "cp_kanban", "cp_stories", "cp_stage", "cp_config", "cp_readme">>

\* the statement that follows statement label
NextPart(label) ==
    CreationOrder[(CHOOSE i \in 1..Len(CreationOrder) : CreationOrder[i] = label) + 1]

\* lines 37-39: the existence check
CreateProjectStart(p) ==
    /\ pc[p] = "idle"
    /\ IF ProjectAlreadyExists
       THEN Return(p, Result("create_project", FALSE, "already_exists", NoId, ""))
       ELSE Goto(p, CreationOrder[1], [NoLoc EXCEPT !.op = "create_project"])
    /\ fresh' = FALSE /\ rets' = << >>
    /\ UNCHANGED <<project_name, edited, fs, faults, issued, deleted>>

\* mutant of CreateProjectFailed: the statement that failed is run again
CreateProjectRetried(p) == Goto(p, pc[p], loc[p])

CreateProjectFailed(p) ==
    Return(p, Result("create_project", FALSE, "fs_error", NoId, ""))

\* line 43: self.filter_dir.mkdir(parents=True, exist_ok=True)
CpMkdirFilter(p) ==
    /\ pc[p] = "cp_filter"
    /\ \E fail \in FaultChoices :
         /\ faults' = Count(fail)
         /\ IF fail
            THEN CreateProjectFailed(p) /\ UNCHANGED filter_dir
            ELSE filter_dir' = TRUE /\ Goto(p, NextPart("cp_filter"), loc[p])
    /\ UNCHANGED <<project_name, edited, kanban_dir, stories_dir, stage_dirs, config, readme,
                   stories, links, plain, hist>>

\* line 50: self.kanban_dir.mkdir(parents=True, exist_ok=True)
CpMkdirKanban(p) ==
    /\ pc[p] = "cp_kanban"
    /\ \E fail \in FaultChoices :
         /\ faults' = Count(fail)
         /\ IF fail
            THEN CreateProjectFailed(p) /\ UNCHANGED <<filter_dir, kanban_dir>>
            ELSE /\ filter_dir' = TRUE
                 /\ kanban_dir' = TRUE
                 /\ Goto(p, NextPart("cp_kanban"), loc[p])
    /\ UNCHANGED <<project_name, edited, stories_dir, stage_dirs, config, readme, stories, links, plain, hist>>

\* line 55: stories_dir.mkdir(exist_ok=True); the parent must exist
CpMkdirStories(p) ==
    /\ pc[p] = "cp_stories"
    /\ \E fail \in FaultChoices :
         /\ faults' = Count(fail)
         /\ IF fail \/ ~filter_dir
            THEN CreateProjectFailed(p) /\ UNCHANGED stories_dir
            ELSE /\ stories_dir' = TRUE
                 /\ Goto(p, NextPart("cp_stories"), [loc[p] EXCEPT !.i = 1])
    /\ UNCHANGED <<project_name, edited, filter_dir, kanban_dir, stage_dirs, config, readme,
                   stories, links, plain, hist>>

\* lines 59-62: one stage_dir.mkdir(exist_ok=True) of the loop over kanban_stages
CpMkdirStage(p) ==
    /\ pc[p] = "cp_stage"
    /\ \E fail \in FaultChoices :
         /\ faults' = Count(fail)
         /\ IF fail \/ ~kanban_dir
            THEN CreateProjectFailed(p) /\ UNCHANGED stage_dirs
            ELSE /\ stage_dirs' = stage_dirs \cup {DefaultStages[loc[p].i]}
                 /\ IF loc[p].i < Len(DefaultStages)
                    THEN Goto(p, "cp_stage", [loc[p] EXCEPT !.i = @ + 1])
                    ELSE Goto(p, NextPart("cp_stage"), [loc[p] EXCEPT !.i = 0])
    /\ UNCHANGED <<project_name, edited, filter_dir, kanban_dir, stories_dir, config, readme,
                   stories, links, plain, hist>>

\* lines 65-66: self.config_path.write_text(config_content)
CpWriteConfig(p) ==
    /\ pc[p] = "cp_config"
    /\ \E fail \in FaultChoices :
         /\ faults' = Count(fail)
         /\ IF fail \/ ~filter_dir
            THEN CreateProjectFailed(p) /\ UNCHANGED config
            ELSE /\ config' = GenerateConfigContent(project_name)
                 /\ Goto(p, NextPart("cp_config"), loc[p])
    /\ UNCHANGED <<project_name, edited, filter_dir, kanban_dir, stories_dir, stage_dirs, readme,
                   stories, links, plain, hist>>

\* lines 70-76: readme_path.write_text(readme_content), then the success return
CpWriteReadme(p) ==
    /\ pc[p] = "cp_readme"
    /\ \E fail \in FaultChoices :
         /\ faults' = Count(fail)
         /\ IF fail \/ ~filter_dir
            THEN CreateProjectFailed(p) /\ UNCHANGED <<readme, fresh>>
            ELSE /\ readme' = TRUE
                 /\ fresh' = TRUE
                 /\ Return(p, Result("create_project", TRUE, "created", NoId, ""))
    /\ UNCHANGED <<project_name, edited, filter_dir, kanban_dir, stories_dir, stage_dirs, config,
                   stories, links, plain, issued, rets, deleted>>

(***************************************************************************)
(* ProjectManager.delete_project_structure, project_exists,                *)
(* get_project_info                                                        *)
(***************************************************************************)
\* mutant of HasActiveStories: the check looks at the stage links
HasActiveStoriesByLinks == kanban_dir /\ links # {}

\* mutant of HasActiveStories: a missing stories collection counts as stories
HasActiveStoriesOrMissing == ~stories_dir \/ DOMAIN stories # {}

\* projects.py line 100: the stories collection exists and is not empty
HasActiveStories == stories_dir /\ DOMAIN stories # {}

\* line 101: len(list(stories_dir.iterdir()))
StoryCount == Cardinality(DOMAIN stories)

\* lines 93-112; shutil.rmtree is one call
DeleteProject(p, force) ==
    /\ pc[p] = "idle"
    /\ fresh' = FALSE /\ rets' = << >>
    /\ IF ~filter_dir
       THEN /\ Return(p, Result("delete_project", FALSE, "no_project", NoId, ""))
            /\ UNCHANGED <<fs, faults, issued, deleted>>
       ELSE IF ~force /\ HasActiveStories
       THEN /\ Return(p, [Result("delete_project", FALSE, "has_stories", NoId, "")
                             EXCEPT !.count = StoryCount])
            /\ UNCHANGED <<fs, faults, issued, deleted>>
       ELSE \E fail \in FaultChoices :
            /\ faults' = Count(fail)
            /\ IF fail
               THEN /\ Return(p, Result("delete_project", FALSE, "fs_error", NoId, ""))
                    /\ UNCHANGED <<fs, issued, deleted>>
               ELSE /\ filter_dir' = FALSE
                    /\ kanban_dir' = FALSE
                    /\ stories_dir' = FALSE
                    /\ stage_dirs' = {}
                    /\ config' = AbsentConfig
                    /\ readme' = FALSE
                    /\ stories' = << >>
                    /\ links' = {}
                    /\ plain' = {}
                    /\ issued' = << >>
                    /\ deleted' = {}
                    /\ Return(p, Result("delete_project", TRUE, "deleted", NoId, ""))
    /\ UNCHANGED <<project_name, edited>>

\* projects.py lines 114-122
ProjectExists == filter_dir

\* the entries directly inside stage directory s (links, dangling or not, and
\* regular files)
StageEntries(s) == {l \in links \cup plain : l.stage = s}

\* lines 134-142 of get_project_info: total_stories and the per-stage counts
TotalStories == IF stories_dir THEN Cardinality(DOMAIN stories) ELSE 0
StageCount(s) == Cardinality(StageEntries(s))
StageCountDirs == IF kanban_dir THEN stage_dirs ELSE {}

\* the sum of the counts of the stage directories in S
RECURSIVE SumStageCounts(_)
SumStageCounts(S) ==
    IF S = {} THEN 0
    ELSE LET s == CHOOSE x \in S : TRUE IN StageCount(s) + SumStageCounts(S \ {s})

StageCountSum == SumStageCounts(StageCountDirs)

\* get_project_info: null when there is no project
GetProjectInfo(p) ==
    /\ pc[p] = "idle"
    /\ fresh' = FALSE /\ rets' = << >>
    /\ IF ~ProjectExists
       THEN Return(p, Result("get_project_info", FALSE, "null", NoId, ""))
       ELSE Return(p, [Result("get_project_info", TRUE, "info", NoId, "")
                          EXCEPT !.info = [total_stories |-> TotalStories,
                                           stage_total |-> StageCountSum]])
    /\ UNCHANGED <<project_name, edited, fs, faults, issued, deleted>>

(***************************************************************************)
(* StoryManager                                                            *)
(***************************************************************************)
\* mutant of EnsureFilterStructure: the stories collection is not checked
EnsureFilterStructureNoStories ==
    IF ~filter_dir THEN "no_project"
    ELSE IF ~kanban_dir THEN "missing_dir"
    ELSE "ok"

\* _ensure_filter_structure (stories.py lines 35-44): the kind of its message
EnsureFilterStructure ==
    IF ~filter_dir THEN "no_project"
    ELSE IF ~stories_dir \/ ~kanban_dir THEN "missing_dir"
    ELSE "ok"

MkLink(stage, id) == [stage |-> stage, id |-> id]

\* story_file.exists()
StoryFileExists(id) == stories_dir /\ id \in DOMAIN stories

\* stage_link.exists() (stories.py line 202, story_cli.py line 178): exists()
\* follows the link, so a link whose story file is gone does not exist
StageLinkExists(stage, id) ==
    /\ kanban_dir
    /\ stage \in stage_dirs
    /\ \/ MkLink(stage, id) \in links /\ StoryFileExists(id)
       \/ MkLink(stage, id) \in plain

\* mutant of SymlinkRaises: the link is made whatever the directory holds
SymlinkRaisesNever(stage, id) == FALSE

\* stage_link.symlink_to(...) raises: the stage directory is missing or the
\* name is taken (FileExistsError, also by a dangling link)
SymlinkRaises(stage, id) ==
    \/ ~kanban_dir
    \/ stage \notin stage_dirs
    \/ MkLink(stage, id) \in links \cup plain

\* mutant of LinksAfterSymlink: the link is always made in the default stage
LinksAfterSymlinkDefault(stage, id) == links \cup {MkLink("planning", id)}

\* mutant of LinksAfterSymlink: no link is made
LinksAfterSymlinkNone(stage, id) == links

\* mutant of LinksAfterSymlink: making the link takes the story out of every
\* other stage
LinksAfterSymlinkOnly(stage, id) == {l \in links : l.id # id} \cup {MkLink(stage, id)}

\* stage_link.symlink_to(f"../../stories/{story_id}.md") (stories.py lines
\* 164-166, story_cli.py lines 184-186)
LinksAfterSymlink(stage, id) == links \cup {MkLink(stage, id)}

\* the faults a _load_config at this point can meet: it writes only when the
\* file is absent
LoadFaultChoices == IF LoadWrites(config) THEN FaultChoices ELSE {FALSE}

\* mutant of NextNumber: the number is taken from the count of story files
NextNumberFromFiles(cfg) == Cardinality(DOMAIN stories) + 1

\* mutant of WithCounter: the incremented counter is not stored
WithCounterLost(cfg, n) == cfg

\* mutant of StoryIdOf: the prefix is derived from the directory name again
StoryIdOfDerived(cfg, n) == MkId(GeneratePrefix(project_name), n)

\* _get_next_story_number lines 120-124
NextNumber(cfg) == cfg.last_story_number + 1
StoryIdOf(cfg, n) == MkId(cfg.prefix, n)
WithCounter(cfg, n) == [cfg EXCEPT !.last_story_number = n]

\* the ids passed to delete_story and move: those of the story files, and
\* ids with the derived prefix and a number up to MaxStories
IdInputs == DOMAIN stories \cup {MkId(GeneratePrefix(project_name), n) : n \in 1..MaxStories}

\* mutant of ValidStages: the stage is checked against the fixed default list
ValidStagesDefault(cfg) == Range(DefaultStages)

\* the stages that `stage not in config["kanban_stages"]` accepts (stories.py
\* line 150, story_cli.py line 163)
ValidStages(cfg) == Range(cfg.kanban_stages)

\* a failure result; it carries the kind of the message only
StoryFailed(p, op, msg) == Return(p, Result(op, FALSE, msg, NoId, ""))

\* create_story lines 141-151: the precondition check, the configuration load
\* (outside the try block) and the stage validation
CreateStoryStart(p, title, stage) ==
    /\ pc[p] = "idle"
    /\ config.last_story_number < MaxStories
    /\ Len(issued) < MaxStories
    /\ IF EnsureFilterStructure # "ok"
       THEN /\ StoryFailed(p, "create_story", EnsureFilterStructure)
            /\ fresh' = FALSE /\ rets' = << >>
            /\ UNCHANGED <<config, faults>>
       ELSE \E fail \in LoadFaultChoices :
            /\ faults' = Count(fail)
            /\ config' = ConfigAfterLoad(config, project_name, fail)
            /\ IF LoadRaises(config, fail)
               THEN /\ Return(p, [Result("create_story", FALSE, "raised", NoId, "")
                                     EXCEPT !.raised = TRUE])
                    /\ fresh' = FALSE /\ rets' = << >>
               ELSE IF stage \notin ValidStages(LoadedConfig(config, project_name))
               THEN /\ Return(p, Result("create_story", FALSE, "invalid_stage", NoId, stage))
                    /\ fresh' = FALSE /\ rets' = << >>
               ELSE /\ Goto(p, "cs_load", [NoLoc EXCEPT !.op = "create_story",
                                                       !.title = title, !.stage = stage,
                                                       !.found = config.state])
                    /\ UNCHANGED <<fresh, rets>>
    /\ UNCHANGED <<project_name, edited, filter_dir, kanban_dir, stories_dir, stage_dirs, readme,
                   stories, links, plain, issued, deleted>>

\* mutant of CreateStoryFailed: the error is raised to the caller
CreateStoryRaised(p) ==
    /\ Return(p, [Result("create_story", FALSE, "raised", NoId, "") EXCEPT !.raised = TRUE])
    /\ fresh' = FALSE /\ rets' = << >>

\* create_story lines 171-173: an OSError raised inside the try block is
\* caught and returned as (False, "Failed to create story: ...")
CreateStoryFailed(p) ==
    /\ StoryFailed(p, "create_story", "fs_error")
    /\ fresh' = FALSE /\ rets' = << >>

\* _get_next_story_number line 119: config = self._load_config()
CsLoad(p) ==
    /\ pc[p] = "cs_load"
    /\ \E fail \in LoadFaultChoices :
         /\ faults' = Count(fail)
         /\ config' = ConfigAfterLoad(config, project_name, fail)
         /\ IF LoadRaises(config, fail) \/ ~filter_dir
            THEN CreateStoryFailed(p)
            ELSE /\ Goto(p, "cs_save", [loc[p] EXCEPT !.cfg = LoadedConfig(config, project_name),
                                                      !.saves = Len(issued)])
                 /\ UNCHANGED <<fresh, rets>>
    /\ UNCHANGED <<project_name, edited, filter_dir, kanban_dir, stories_dir, stage_dirs, readme,
                   stories, links, plain, issued, deleted>>

\* _get_next_story_number lines 120-128: increment, self._save_config(config),
\* return the number and the id
CsSave(p) ==
    /\ pc[p] = "cs_save"
    /\ \E fail \in FaultChoices :
         LET next_number == NextNumber(loc[p].cfg)
             story_id == StoryIdOf(loc[p].cfg, next_number)
         IN  /\ faults' = Count(fail)
             /\ IF fail \/ ~filter_dir
                THEN CreateStoryFailed(p) /\ UNCHANGED <<config, issued>>
                ELSE /\ config' = WithCounter(loc[p].cfg, next_number)
                     /\ issued' = Append(issued, next_number)
                     /\ Goto(p, "cs_write", [loc[p] EXCEPT !.id = story_id])
                     /\ UNCHANGED <<fresh, rets>>
    /\ UNCHANGED <<project_name, edited, filter_dir, kanban_dir, stories_dir, stage_dirs, readme,
                   stories, links, plain, deleted>>

\* create_story lines 156-160: story_file.write_text(story_content)
CsWrite(p) ==
    /\ pc[p] = "cs_write"
    /\ \E fail \in FaultChoices :
         /\ faults' = Count(fail)
         /\ IF fail \/ ~stories_dir
            THEN CreateStoryFailed(p) /\ UNCHANGED stories
            ELSE /\ stories' = (loc[p].id :> GenerateStoryContent(loc[p].id, loc[p].title))
                                @@ stories
                 /\ Goto(p, "cs_link", loc[p])
                 /\ UNCHANGED <<fresh, rets>>
    /\ UNCHANGED <<project_name, edited, filter_dir, kanban_dir, stories_dir, stage_dirs, config,
                   readme, links, plain, issued, deleted>>

\* create_story lines 164-169: stage_link.symlink_to(...), then the success return
CsLink(p) ==
    /\ pc[p] = "cs_link"
    /\ \E fail \in FaultChoices :
         /\ faults' = Count(fail)
         /\ IF fail \/ SymlinkRaises(loc[p].stage, loc[p].id)
            THEN CreateStoryFailed(p) /\ UNCHANGED <<links, plain>>
            ELSE /\ links' = LinksAfterSymlink(loc[p].stage, loc[p].id)
                 /\ plain' = plain
                 /\ Return(p, [Result("create_story", TRUE, "created", loc[p].id, loc[p].stage)
                                  EXCEPT !.title = loc[p].title])
                 /\ rets' = IF fresh THEN Append(rets, loc[p].id) ELSE rets
                 /\ UNCHANGED fresh
    /\ UNCHANGED <<project_name, edited, filter_dir, kanban_dir, stories_dir, stage_dirs, config,
                   readme, stories, issued, deleted>>

\* mutant of NextLinked: the loop finds no link to remove
NextLinkedNone(cfg, i, id) == 0

\* mutant of LinksAfterUnlink: the link stays
LinksAfterUnlinkKept(stage, id) == links

\* mutant of NextLinked: the loop takes the last stage that holds a link
NextLinkedLast(cfg, i, id) ==
    LET J == {j \in i..Len(cfg.kanban_stages) : StageLinkExists(cfg.kanban_stages[j], id)}
    IN  IF J = {} THEN 0 ELSE CHOOSE j \in J : \A k \in J : j >= k

\* the loops `for stage in config["kanban_stages"]: if stage_link.exists():
\* stage_link.unlink()` of delete_story and move: the first index from i on
\* whose stage holds a link of id that exists, 0 when there is none
NextLinked(cfg, i, id) ==
    LET J == {j \in i..Len(cfg.kanban_stages) : StageLinkExists(cfg.kanban_stages[j], id)}
    IN  IF J = {} THEN 0 ELSE CHOOSE j \in J : \A k \in J : j <= k

\* stage_link.unlink()
LinksAfterUnlink(stage, id) == links \ {MkLink(stage, id)}
PlainAfterUnlink(stage, id) == plain \ {MkLink(stage, id)}

\* where the loop goes on after the unlink at index j: to its body if a later
\* stage holds a link of id, past the loop otherwise
AfterUnlink(cfg, j, id, body, after) ==
    IF NextLinked(cfg, j + 1, id) = 0 THEN after ELSE body

\* where the loop starts
LoopEntry(cfg, id, body, after) == AfterUnlink(cfg, 0, id, body, after)

\* delete_story lines 184-198: the precondition check, the existence check and
\* the configuration load (inside the try block)
DeleteStoryStart(p, id) ==
    /\ pc[p] = "idle"
    /\ fresh' = FALSE /\ rets' = << >>
    /\ IF EnsureFilterStructure # "ok"
       THEN /\ StoryFailed(p, "delete_story", EnsureFilterStructure)
            /\ UNCHANGED <<config, faults>>
       ELSE IF ~StoryFileExists(id)
       THEN /\ Return(p, Result("delete_story", FALSE, "not_found", id, ""))
            /\ UNCHANGED <<config, faults>>
       ELSE \E fail \in LoadFaultChoices :
            LET cfg == LoadedConfig(config, project_name)
            IN  /\ faults' = Count(fail)
                /\ config' = ConfigAfterLoad(config, project_name, fail)
                /\ IF LoadRaises(config, fail)
                   THEN StoryFailed(p, "delete_story", "fs_error")
                   ELSE Goto(p, LoopEntry(cfg, id, "ds_links", "ds_file"),
                             [NoLoc EXCEPT !.op = "delete_story", !.id = id,
                                           !.cfg = cfg, !.i = 1])
    /\ UNCHANGED <<project_name, edited, filter_dir, kanban_dir, stories_dir, stage_dirs, readme,
                   stories, links, plain, issued, deleted>>

\* delete_story lines 200-205: the loop up to and including its next
\* stage_link.unlink(), and on to the end if no later stage holds a link
DsLinks(p) ==
    /\ pc[p] = "ds_links"
    /\ LET cfg == loc[p].cfg
           j == NextLinked(cfg, loc[p].i, loc[p].id)
       IN  IF j = 0
           THEN /\ Goto(p, "ds_file", [loc[p] EXCEPT !.i = Len(cfg.kanban_stages) + 1])
                /\ UNCHANGED <<links, plain, faults>>
           ELSE \E fail \in FaultChoices :
                /\ faults' = Count(fail)
                /\ IF fail
                   THEN /\ StoryFailed(p, "delete_story", "fs_error")
                        /\ UNCHANGED <<links, plain>>
                   ELSE /\ links' = LinksAfterUnlink(cfg.kanban_stages[j], loc[p].id)
                        /\ plain' = PlainAfterUnlink(cfg.kanban_stages[j], loc[p].id)
                        /\ Goto(p, AfterUnlink(cfg, j, loc[p].id, "ds_links", "ds_file"),
                                [loc[p] EXCEPT !.i = j + 1,
                                               !.removed = Append(@, cfg.kanban_stages[j])])
    /\ UNCHANGED <<project_name, edited, filter_dir, kanban_dir, stories_dir, stage_dirs, config,
                   readme, stories, hist>>

\* mutant of WithoutStory: the story file is not removed
WithoutStoryKept(id) == stories

\* the stories collection without the file of id
WithoutStory(id) == [x \in DOMAIN stories \ {id} |-> stories[x]]

\* delete_story lines 208-212: story_file.unlink(), then the success return
DsFile(p) ==
    /\ pc[p] = "ds_file"
    /\ \E fail \in FaultChoices :
         /\ faults' = Count(fail)
         /\ IF fail \/ ~StoryFileExists(loc[p].id)
            THEN /\ StoryFailed(p, "delete_story", "fs_error")
                 /\ UNCHANGED <<stories, deleted>>
            ELSE /\ stories' = WithoutStory(loc[p].id)
                 /\ deleted' = deleted \cup {loc[p].id}
                 /\ Return(p, [Result("delete_story", TRUE, "deleted", loc[p].id, "")
                                  EXCEPT !.removed = loc[p].removed])
    /\ UNCHANGED <<project_name, edited, filter_dir, kanban_dir, stories_dir, stage_dirs, config,
                   readme, links, plain, issued, fresh, rets>>

\* mutant of MoveValidation: the story file is looked for first
MoveValidationStoryFirst(cfg, id, target) ==
    IF ~StoryFileExists(id) THEN "not_found"
    ELSE IF target \notin ValidStages(cfg) THEN "invalid_stage"
    ELSE "ok"

\* story_cli.py lines 163-172: the stage validation, then the existence check
MoveValidation(cfg, id, target) ==
    IF target \notin ValidStages(cfg) THEN "invalid_stage"
    ELSE IF ~StoryFileExists(id) THEN "not_found"
    ELSE "ok"

\* story_cli.py move, lines 155-172: get_project_config, the stage validation
\* and the existence check; every exception becomes a failure (lines 192-195)
MoveStart(p, id, target) ==
    /\ pc[p] = "idle"
    /\ fresh' = FALSE /\ rets' = << >>
    /\ IF EnsureFilterStructure # "ok"
       THEN /\ StoryFailed(p, "move_story", "no_project")
            /\ UNCHANGED <<config, faults>>
       ELSE \E fail \in LoadFaultChoices :
            LET cfg == LoadedConfig(config, project_name)
            IN  /\ faults' = Count(fail)
                /\ config' = ConfigAfterLoad(config, project_name, fail)
                /\ IF LoadRaises(config, fail)
                   THEN StoryFailed(p, "move_story", "fs_error")
                   ELSE IF MoveValidation(cfg, id, target) = "invalid_stage"
                   THEN Return(p, Result("move_story", FALSE, "invalid_stage", NoId, target))
                   ELSE IF MoveValidation(cfg, id, target) = "not_found"
                   THEN Return(p, Result("move_story", FALSE, "not_found", id, ""))
                   ELSE Goto(p, LoopEntry(cfg, id, "mv_links", "mv_link"),
                             [NoLoc EXCEPT !.op = "move_story", !.id = id,
                                           !.stage = target, !.cfg = cfg, !.i = 1])
    /\ UNCHANGED <<project_name, edited, filter_dir, kanban_dir, stories_dir, stage_dirs, readme,
                   stories, links, plain, issued, deleted>>

\* move lines 176-181: the removal loop up to and including its next
\* stage_link.unlink(), and on to the end if no later stage holds a link
MvLinks(p) ==
    /\ pc[p] = "mv_links"
    /\ LET cfg == loc[p].cfg
           j == NextLinked(cfg, loc[p].i, loc[p].id)
       IN  IF j = 0
           THEN /\ Goto(p, "mv_link", [loc[p] EXCEPT !.i = Len(cfg.kanban_stages) + 1])
                /\ UNCHANGED <<links, plain, faults>>
           ELSE \E fail \in FaultChoices :
                /\ faults' = Count(fail)
                /\ IF fail
                   THEN /\ StoryFailed(p, "move_story", "fs_error")
                        /\ UNCHANGED <<links, plain>>
                   ELSE /\ links' = LinksAfterUnlink(cfg.kanban_stages[j], loc[p].id)
                        /\ plain' = PlainAfterUnlink(cfg.kanban_stages[j], loc[p].id)
                        /\ Goto(p, AfterUnlink(cfg, j, loc[p].id, "mv_links", "mv_link"),
                                [loc[p] EXCEPT !.i = j + 1,
                                               !.removed = Append(@, cfg.kanban_stages[j])])
    /\ UNCHANGED <<project_name, edited, filter_dir, kanban_dir, stories_dir, stage_dirs, config,
                   readme, stories, hist>>

\* mutant of MoveLinkFailed: the links that were removed are made again
MoveLinkFailedRestored(p) ==
    /\ StoryFailed(p, "move_story", "fs_error")
    /\ links' = links \cup {MkLink(s, loc[p].id) : s \in Range(loc[p].removed)}
    /\ plain' = plain

\* move lines 192-195: the exception of symlink_to becomes the failure
\* message; nothing is put back
MoveLinkFailed(p) ==
    /\ StoryFailed(p, "move_story", "fs_error")
    /\ UNCHANGED <<links, plain>>

\* move lines 184-190: target_link.symlink_to(...), then the success message
MvLink(p) ==
    /\ pc[p] = "mv_link"
    /\ \E fail \in FaultChoices :
         /\ faults' = Count(fail)
         /\ IF fail \/ SymlinkRaises(loc[p].stage, loc[p].id)
            THEN MoveLinkFailed(p)
            ELSE /\ links' = LinksAfterSymlink(loc[p].stage, loc[p].id)
                 /\ plain' = plain
                 /\ Return(p, [Result("move_story", TRUE, "moved", loc[p].id, loc[p].stage)
                                  EXCEPT !.removed = loc[p].removed])
    /\ UNCHANGED <<project_name, edited, filter_dir, kanban_dir, stories_dir, stage_dirs, config,
                   readme, stories, hist>>

(***************************************************************************)
(* StoryManager.list_stories and get_project_config                        *)
(***************************************************************************)
\* mutant of StagesToCheck: without a filter the fixed default stages are listed
StagesToCheckDefault(stage, cfg) == IF stage # "" THEN <<stage>> ELSE DefaultStages

\* stories.py line 240; the stage argument None is modelled by ""
StagesToCheck(stage, cfg) == IF stage # "" THEN <<stage>> ELSE cfg.kanban_stages

\* link_file.is_symlink() (line 248)
IsSymlink(x) == x \in links

\* mutant of StageRecords: every entry of the stage directory is reported
StageRecordsAll(check_stage) ==
    IF kanban_dir /\ check_stage \in stage_dirs
    THEN {[id |-> l.id,
           title |-> IF StoryFileExists(l.id) THEN ExtractTitle(stories[l.id]) ELSE << >>,
           stage |-> check_stage] : l \in StageEntries(check_stage)}
    ELSE {}

\* lines 243-254 for one stage: a record for every entry of the stage
\* directory that is a symlink and whose story file exists
StageRecords(check_stage) ==
    IF kanban_dir /\ check_stage \in stage_dirs
    THEN {[id |-> l.id, title |-> ExtractTitle(stories[l.id]), stage |-> check_stage] :
             l \in {x \in StageEntries(check_stage) : IsSymlink(x) /\ StoryFileExists(x.id)}}
    ELSE {}

\* the records list_stories(stage) returns when nothing fails, as a set
ListStories(stage) ==
    UNION {StageRecords(s) :
             s \in Range(StagesToCheck(stage, LoadedConfig(config, project_name)))}

\* the orders in which a directory listing may give the members of S
Orders(S) ==
    {f \in [1..Cardinality(S) -> S] : \A i, j \in 1..Cardinality(S) : i # j => f[i] # f[j]}

\* the sequences list_stories may return for the stages of sequence ss: stage
\* by stage in the order of ss, each stage in directory-listing order
RECURSIVE ListOrders(_)
ListOrders(ss) ==
    IF Len(ss) = 0 THEN { << >> }
    ELSE {a \o b : a \in Orders(StageRecords(Head(ss))), b \in ListOrders(Tail(ss))}

\* list_stories lines 227-261
ListStoriesOp(p, stage) ==
    /\ pc[p] = "idle"
    /\ fresh' = FALSE /\ rets' = << >>
    /\ IF EnsureFilterStructure # "ok"
       THEN /\ StoryFailed(p, "list_stories", EnsureFilterStructure)
            /\ UNCHANGED <<config, faults>>
       ELSE \E fail \in FaultChoices :
            /\ faults' = Count(fail)
            /\ config' = ConfigAfterLoad(config, project_name, fail)
            /\ IF fail
               THEN StoryFailed(p, "list_stories", "fs_error")
               ELSE \E l \in ListOrders(StagesToCheck(stage, LoadedConfig(config, project_name))) :
                    Return(p, [Result("list_stories", TRUE, "listed", NoId, stage)
                                  EXCEPT !.list = l])
    /\ UNCHANGED <<project_name, edited, filter_dir, kanban_dir, stories_dir, stage_dirs, readme,
                   stories, links, plain, issued, deleted>>

\* get_project_config lines 327-331: null without the structure; a failing
\* write of the defaults is raised to the caller
GetProjectConfig(p) ==
    /\ pc[p] = "idle"
    /\ fresh' = FALSE /\ rets' = << >>
    /\ IF EnsureFilterStructure # "ok"
       THEN /\ StoryFailed(p, "get_project_config", "null")
            /\ UNCHANGED <<config, faults>>
       ELSE \E fail \in LoadFaultChoices :
            /\ faults' = Count(fail)
            /\ config' = ConfigAfterLoad(config, project_name, fail)
            /\ IF LoadRaises(config, fail)
               THEN Return(p, [Result("get_project_config", FALSE, "raised", NoId, "")
                                  EXCEPT !.raised = TRUE])
               ELSE Return(p, [Result("get_project_config", TRUE, "config", NoId, "")
                                  EXCEPT !.cfg = LoadedConfig(config, project_name)])
    /\ UNCHANGED <<project_name, edited, filter_dir, kanban_dir, stories_dir, stage_dirs, readme,
                   stories, links, plain, issued, deleted>>

Next == \E p \in SeqProcs :
    \/ CreateProjectStart(p)
    \/ CpMkdirFilter(p)
    \/ CpMkdirKanban(p)
    \/ CpMkdirStories(p)
    \/ CpMkdirStage(p)
    \/ CpWriteConfig(p)
    \/ CpWriteReadme(p)
    \/ \E force \in BOOLEAN : DeleteProject(p, force)
    \/ GetProjectInfo(p)
    \/ \E title \in Titles, stage \in StageInputs : CreateStoryStart(p, title, stage)
    \/ CsLoad(p)
    \/ CsSave(p)
    \/ CsWrite(p)
    \/ CsLink(p)
    \/ pc[p] = "idle" /\ \E id \in IdInputs : DeleteStoryStart(p, id)
    \/ DsLinks(p)
    \/ DsFile(p)
    \/ pc[p] = "idle" /\ \E id \in IdInputs, target \in StageInputs : MoveStart(p, id, target)
    \/ MvLinks(p)
    \/ MvLink(p)
    \/ \E stage \in StageInputs \cup {""} : ListStoriesOp(p, stage)
    \/ GetProjectConfig(p)
    \/ Finish(p)

Spec == Init /\ [][Next]_vars

(***************************************************************************)
(* The configuration file edited from outside.  config.yml is a plain YAML *)
(* file that the user may edit, replace by a partial record, damage or     *)
(* remove between two commands; _load_config handles each of these cases.  *)
(***************************************************************************)
\* a stage list that differs from the default one: "planning" is not in it,
\* "bogus" is
CustomStages == <<"testing", "bogus">>
CustomPrefix == <<"Z", "Z">>
CustomName == <<"o">>
CustomCounter == 1
\* a stage list that names two of the stage directories in another order
ReorderedStages == <<"testing", "planning">>

\* a file that holds exactly the keys of K, each with a custom value
CustomConfig(K) ==
    [state |-> "valid", keys |-> K,
     project_name |-> IF "project_name" \in K THEN CustomName ELSE << >>,
     prefix |-> IF "prefix" \in K THEN CustomPrefix ELSE << >>,
     last_story_number |-> IF "last_story_number" \in K THEN CustomCounter ELSE 0,
     kanban_stages |-> IF "kanban_stages" \in K THEN CustomStages ELSE << >>]

\* a file that yaml.safe_load cannot parse
CorruptConfig == [AbsentConfig EXCEPT !.state = "corrupt"]

\* what the file may be after an edit: a full custom record, partial records
\* (one of them with the stages in another order), an empty file (yaml.safe_load(f) or {} gives a record without keys), an
\* unparseable file, no file.  The file holds a mapping whenever it parses.
ConfigEdits ==
    {CustomConfig(ConfigKeys), CustomConfig({"kanban_stages"}),
     CustomConfig({"prefix", "last_story_number"}), CustomConfig({}),
     [CustomConfig({"kanban_stages"}) EXCEPT !.kanban_stages = ReorderedStages],
     CorruptConfig, AbsentConfig}

\* between two commands the configuration file is edited or removed (at most
\* once in a behaviour)
EditConfig ==
    /\ \A q \in Procs : pc[q] = "idle"
    /\ filter_dir
    /\ ~edited
    /\ edited' = TRUE
    /\ \E c \in ConfigEdits \ {config} : config' = c
    /\ fresh' = FALSE /\ rets' = << >>
    /\ UNCHANGED <<project_name, filter_dir, kanban_dir, stories_dir, stage_dirs, readme,
                   stories, links, plain, pc, loc, ret, faults, issued, deleted>>

\* project creation, the operations that load the configuration and create
\* stories, and the edit
NextEdit ==
    \/ EditConfig
    \/ \E p \in SeqProcs :
        \/ CreateProjectStart(p)
        \/ CpMkdirFilter(p)
        \/ CpMkdirKanban(p)
        \/ CpMkdirStories(p)
        \/ CpMkdirStage(p)
        \/ CpWriteConfig(p)
        \/ CpWriteReadme(p)
        \/ \E title \in Titles, stage \in StageInputs : CreateStoryStart(p, title, stage)
        \/ CsLoad(p)
        \/ CsSave(p)
        \/ CsWrite(p)
        \/ CsLink(p)
        \/ \E stage \in StageInputs \cup {""} : ListStoriesOp(p, stage)
        \/ GetProjectConfig(p)
        \/ Finish(p)

\* behaviours with an edited configuration file and at most one failing
\* filesystem call: the rest of the budget of failures is used up from the
\* start
InitEdit == project_name \in ProjectNames /\ InitState /\ faults = MaxFaults - 1

SpecEdit == InitEdit /\ [][NextEdit]_vars

(***************************************************************************)
(* Prefix derivation over many project names: every name over NameChars up *)
(* to MaxNameLen characters, the empty name included, and the names of     *)
(* ExtraNames.  The derivations are applied by create_project_structure    *)
(* (the configuration record it writes) and by the configuration load of   *)
(* get_project_config (the defaults it computes when the file is absent);  *)
(* one filesystem call may fail, so that the file can be absent.  The      *)
(* behaviours start inside create_project_structure, before that write.    *)
(***************************************************************************)
MaxNameLen == 6
NameChars == {"a", "B", "-", "7"}
ExtraNames ==
    {<<"f", "i", "l", "t", "e", "r">>,
     <<"a", "p", "p">>,
     <<"p", "r", "o", "j", "e", "c", "t", "_", "2", "0", "2", "4">>,
     <<"a", "p", "p", "-", "v", "2", "-", "f", "i", "n", "a", "l">>,
     <<"m", "y", "-", "a", "p", "p">>,
     <<"a", "p", "p", "-", "1", "\n">>,
     <<"\n">>,
     <<"a", "b", "_", "c">>,
     <<"-", "_", "7">>}
PrefixNames == UNION {[1..n -> NameChars] : n \in 0..MaxNameLen} \cup ExtraNames

\* create_project_structure has made the directories and is about to write
\* the configuration record (projects.py line 65)
InitPrefix ==
    /\ project_name \in PrefixNames
    /\ filter_dir = TRUE
    /\ kanban_dir = TRUE
    /\ stories_dir = TRUE
    /\ stage_dirs = Range(DefaultStages)
    /\ config = AbsentConfig
    /\ readme = FALSE
    /\ stories = << >>
    /\ links = {}
    /\ plain = {}
    /\ pc = [p \in Procs |-> IF p \in SeqProcs THEN "cp_config" ELSE "idle"]
    /\ loc = [p \in Procs |-> IF p \in SeqProcs THEN [NoLoc EXCEPT !.op = "create_project"]
                                              ELSE NoLoc]
    /\ ret = [p \in Procs |-> NoRet]
    /\ faults = MaxFaults - 1
    /\ edited = FALSE
    /\ issued = << >>
    /\ fresh = FALSE
    /\ rets = << >>
    /\ deleted = {}

NextPrefix == \E p \in SeqProcs :
    \/ CpWriteConfig(p)
    \/ CpWriteReadme(p)
    \/ GetProjectConfig(p)
    \/ Finish(p)

SpecPrefix == InitPrefix /\ [][NextPrefix]_vars

(***************************************************************************)
(* The first stories of a new project, for several directory names.  The   *)
(* project is created and stories are created in it; one filesystem call   *)
(* may fail, so create_project_structure may stop before it writes the     *)
(* configuration record and leave a project without one.                   *)
(***************************************************************************)
FirstNames == ProjectNames \cup ExtraNames \cup {<< >>}

InitFirst == project_name \in FirstNames /\ InitState /\ faults = MaxFaults - 1

NextFirst == \E p \in SeqProcs :
    \/ CreateProjectStart(p)
    \/ CpMkdirFilter(p)
    \/ CpMkdirKanban(p)
    \/ CpMkdirStories(p)
    \/ CpMkdirStage(p)
    \/ CpWriteConfig(p)
    \/ CpWriteReadme(p)
    \/ \E title \in Titles, stage \in StageInputs : CreateStoryStart(p, title, stage)
    \/ CsLoad(p)
    \/ CsSave(p)
    \/ CsWrite(p)
    \/ CsLink(p)
    \/ Finish(p)

SpecFirst == InitFirst /\ [][NextFirst]_vars

(***************************************************************************)
(* The title round trip over many titles: every title over TitleChars up   *)
(* to MaxTitleLen characters, the empty title included.  One story is      *)
(* created, in a project whose earlier stories were deleted, and listed;   *)
(* no filesystem call fails.                                               *)
(***************************************************************************)
MaxTitleLen == 4
TitleChars == {"a", ":", " ", "\n", "\r"}
TitleInputs == UNION {[1..n -> TitleChars] : n \in 0..MaxTitleLen}

\* a complete project that has issued MaxStories - 1 identifiers and holds no
\* story
InitTitle ==
    /\ project_name \in ProjectNames
    /\ filter_dir = TRUE
    /\ kanban_dir = TRUE
    /\ stories_dir = TRUE
    /\ stage_dirs = Range(DefaultStages)
    /\ config = [GenerateConfigContent(project_name) EXCEPT !.last_story_number = MaxStories - 1]
    /\ readme = TRUE
    /\ stories = << >>
    /\ links = {}
    /\ plain = {}
    /\ pc = [p \in Procs |-> "idle"]
    /\ loc = [p \in Procs |-> NoLoc]
    /\ ret = [p \in Procs |-> NoRet]
    /\ faults = MaxFaults
    /\ edited = FALSE
    /\ issued = [i \in 1..(MaxStories - 1) |-> i]
    /\ fresh = FALSE
    /\ rets = << >>
    /\ deleted = {MkId(GeneratePrefix(project_name), i) : i \in 1..(MaxStories - 1)}

NextTitle == \E p \in SeqProcs :
    \/ \E title \in TitleInputs : CreateStoryStart(p, title, "planning")
    \/ CsLoad(p)
    \/ CsSave(p)
    \/ CsWrite(p)
    \/ CsLink(p)
    \/ ListStoriesOp(p, "")
    \/ Finish(p)

SpecTitle == InitTitle /\ [][NextTitle]_vars

(***************************************************************************)
(* Deleting a story that is linked in several stages.  Two move commands   *)
(* that run at the same time can leave a story linked in more than one     *)
(* stage (each removes the links it sees and then makes its own), so the   *)
(* behaviours start from a project with one story that is linked in two or *)
(* three of three stages; one caller then deletes, lists and creates       *)
(* stories, and filesystem calls may fail.                                 *)
(***************************************************************************)
\* the stages the story may be linked in at the start
LinkedAtStart == {"planning", "testing", "complete"}

InitDelete ==
    /\ project_name \in ProjectNames
    /\ filter_dir = TRUE
    /\ kanban_dir = TRUE
    /\ stories_dir = TRUE
    /\ stage_dirs = Range(DefaultStages)
    /\ config = [GenerateConfigContent(project_name) EXCEPT !.last_story_number = 1]
    /\ readme = TRUE
    /\ stories = (MkId(GeneratePrefix(project_name), 1) :>
                     GenerateStoryContent(MkId(GeneratePrefix(project_name), 1), <<"f", "i", "x">>))
    /\ links \in {L \in SUBSET {MkLink(s, MkId(GeneratePrefix(project_name), 1)) :
                                    s \in LinkedAtStart} : Cardinality(L) >= 2}
    /\ plain = {}
    /\ pc = [p \in Procs |-> "idle"]
    /\ loc = [p \in Procs |-> NoLoc]
    /\ ret = [p \in Procs |-> NoRet]
    /\ faults = 0
    /\ edited = FALSE
    /\ issued = <<1>>
    /\ fresh = FALSE
    /\ rets = << >>
    /\ deleted = {}

NextDelete == \E p \in SeqProcs :
    \/ \E title \in Titles, stage \in StageInputs : CreateStoryStart(p, title, stage)
    \/ CsLoad(p)
    \/ CsSave(p)
    \/ CsWrite(p)
    \/ CsLink(p)
    \/ \E id \in IdInputs : DeleteStoryStart(p, id)
    \/ DsLinks(p)
    \/ DsFile(p)
    \/ \E stage \in StageInputs \cup {""} : ListStoriesOp(p, stage)
    \/ Finish(p)

SpecDelete == InitDelete /\ [][NextDelete]_vars

(***************************************************************************)
(* Listing stage directories that hold more than live links.  A project    *)
(* with two stories: the first is linked in planning or complete or both,  *)
(* the second in testing, and someone has put regular files named like     *)
(* stories into stage directories.  The configuration file may be edited   *)
(* once; a delete_story under a stage list that leaves out a stage where   *)
(* the story is linked leaves that link dangling.                          *)
(***************************************************************************)
FirstStory == MkId(GeneratePrefix(project_name), 1)
SecondStory == MkId(GeneratePrefix(project_name), 2)

\* the regular files a stage directory may hold from the start
PlainAtStart ==
    {MkLink("planning", SecondStory), MkLink("complete", SecondStory),
     MkLink("testing", FirstStory)}

InitList ==
    /\ project_name \in ProjectNames
    /\ filter_dir = TRUE
    /\ kanban_dir = TRUE
    /\ stories_dir = TRUE
    /\ stage_dirs = Range(DefaultStages)
    /\ config = [GenerateConfigContent(project_name) EXCEPT !.last_story_number = 2]
    /\ readme = TRUE
    /\ stories = (FirstStory :> GenerateStoryContent(FirstStory, <<"f", "i", "x">>))
                 @@ (SecondStory :> GenerateStoryContent(SecondStory, <<"f", "i", "x">>))
    /\ links \in {L \cup {MkLink("testing", SecondStory)} :
                     L \in SUBSET {MkLink("planning", FirstStory),
                                   MkLink("complete", FirstStory)} \ {{}}}
    /\ plain \in SUBSET PlainAtStart
    /\ pc = [p \in Procs |-> "idle"]
    /\ loc = [p \in Procs |-> NoLoc]
    /\ ret = [p \in Procs |-> NoRet]
    /\ faults = MaxFaults - 1
    /\ edited = FALSE
    /\ issued = <<1, 2>>
    /\ fresh = FALSE
    /\ rets = << >>
    /\ deleted = {}

NextList ==
    \/ EditConfig
    \/ \E p \in SeqProcs :
        \/ \E id \in IdInputs : DeleteStoryStart(p, id)
        \/ DsLinks(p)
        \/ DsFile(p)
        \/ \E stage \in StageInputs \cup {""} : ListStoriesOp(p, stage)
        \/ Finish(p)

SpecList == InitList /\ [][NextList]_vars

(***************************************************************************)
(* Two callers that create stories at once.  Nothing in the code locks the *)
(* project, so the filesystem calls of two commands that run at the same   *)
(* time interleave in any order.  The behaviours start from a project that *)
(* create_project_structure has just created, and no filesystem call       *)
(* fails.                                                                  *)
(***************************************************************************)
\* the state after a successful create_project_structure (projects.py lines
\* 41-76) on an empty location
InitConc ==
    /\ project_name \in ProjectNames
    /\ filter_dir = TRUE
    /\ kanban_dir = TRUE
    /\ stories_dir = TRUE
    /\ stage_dirs = Range(DefaultStages)
    /\ config = GenerateConfigContent(project_name)
    /\ readme = TRUE
    /\ stories = << >>
    /\ links = {}
    /\ plain = {}
    /\ pc = [p \in Procs |-> "idle"]
    /\ loc = [p \in Procs |-> NoLoc]
    /\ ret = [p \in Procs |-> NoRet]
    /\ faults = MaxFaults
    /\ edited = FALSE
    /\ issued = << >>
    /\ fresh = FALSE
    /\ rets = << >>
    /\ deleted = {}

NextConc == \E p \in Procs :
    \/ \E title \in Titles, stage \in StageInputs : CreateStoryStart(p, title, stage)
    \/ CsLoad(p)
    \/ CsSave(p)
    \/ CsWrite(p)
    \/ CsLink(p)
    \/ Finish(p)

SpecConc == InitConc /\ [][NextConc]_vars

(***************************************************************************)
(* Two move commands that run at once.  The behaviours start from a        *)
(* project with one story, linked in planning, in testing or (after a      *)
(* failed link) nowhere; each caller runs one move command, the steps of   *)
(* the two commands interleave in any order and no filesystem call fails.  *)
(* A caller that has returned keeps its result.                            *)
(***************************************************************************)
InitMove ==
    /\ project_name \in ProjectNames
    /\ filter_dir = TRUE
    /\ kanban_dir = TRUE
    /\ stories_dir = TRUE
    /\ stage_dirs = Range(DefaultStages)
    /\ config = [GenerateConfigContent(project_name) EXCEPT !.last_story_number = 1]
    /\ readme = TRUE
    /\ stories = (FirstStory :> GenerateStoryContent(FirstStory, <<"f", "i", "x">>))
    /\ links \in {{MkLink("planning", FirstStory)}, {MkLink("testing", FirstStory)}, {}}
    /\ plain = {}
    /\ pc = [p \in Procs |-> "idle"]
    /\ loc = [p \in Procs |-> NoLoc]
    /\ ret = [p \in Procs |-> NoRet]
    /\ faults = MaxFaults
    /\ edited = FALSE
    /\ issued = <<1>>
    /\ fresh = FALSE
    /\ rets = << >>
    /\ deleted = {}

NextMove == \E p \in Procs :
    \/ \E id \in IdInputs, target \in StageInputs : MoveStart(p, id, target)
    \/ MvLinks(p)
    \/ MvLink(p)

SpecMove == InitMove /\ [][NextMove]_vars

(***************************************************************************)
(* Properties                                                              *)
(***************************************************************************)
\* the operation a step of caller p belongs to: the one that is running, or
\* the one the step starts (and, if it returns at once, completes)
StepOp(p) ==
    IF pc[p] = "done" THEN "none"
    ELSE IF pc[p] # "idle" THEN loc[p].op
    ELSE IF pc'[p] # "done" THEN loc'[p].op
    ELSE ret'[p].op

\* the operations of StoryManager and the move command
StoryOps == {"create_story", "delete_story", "move_story", "list_stories",
             "get_project_config"}

\* a step of a StoryManager operation or of the move command
StoryManagerStep(p) ==
    /\ <<pc[p], loc[p], ret[p]>>' # <<pc[p], loc[p], ret[p]>>
    /\ StepOp(p) \in StoryOps

\* the stage links named for id
LinksOf(id) == {l \in links : l.id = id}

\* the ids of a set of list_stories records
IdsOf(records) == {r.id : r \in records}

\* the largest member of a sequence of naturals, 0 for the empty sequence
MaxOf(seq) == IF Len(seq) = 0 THEN 0 ELSE CHOOSE m \in Range(seq) : \A x \in Range(seq) : x <= m

\* C1: on a freshly created project, N successful create_story calls with
\* nothing in between return the ids prefix-1 .. prefix-N in that order, and
\* the stored last_story_number is N afterwards.
C1_SequentialIds ==
    (fresh /\ AllIdle) =>
        /\ rets = [i \in 1..Len(rets) |-> MkId(GeneratePrefix(project_name), i)]
        /\ config.state = "valid"
        /\ config.last_story_number = Len(rets)

C1_Witness == fresh /\ AllIdle /\ Len(rets) = MaxStories /\ Len(rets) >= 2

\* C2: across the steps of StoryManager operations (failing ones included) the
\* stored last_story_number never decreases, it equals the highest number
\* issued so far, and no number is issued twice, also after a story holding
\* one was deleted.
C2_IssuedOk ==
    /\ \A i, j \in 1..Len(issued) : i # j => issued[i] # issued[j]
    /\ config.last_story_number = MaxOf(issued)
    /\ config.state # "valid" => issued = << >>

C3_AtMostOneStage ==
    /\ \A l1, l2 \in links : l1.id = l2.id => l1 = l2
    /\ \A p \in Procs : pc[p] = "mv_link" => LinksOf(loc[p].id) = {}

C3_Witness == \E p \in Procs : pc[p] = "mv_link" /\ loc[p].removed # << >>

\* C4: after a successful create_story(title, description, S) the story has a
\* link in stage S and in no other stage, list_stories(stage=S) holds its id
\* and list_stories(stage=S2) does not, for every other configured stage S2.
C4_CreatedInStage ==
    \A p \in Procs :
        (pc[p] = "done" /\ ret[p].op = "create_story" /\ ret[p].ok) =>
            /\ LinksOf(ret[p].id) = {MkLink(ret[p].stage, ret[p].id)}
            /\ ret[p].id \in IdsOf(ListStories(ret[p].stage))
            /\ \A s2 \in Range(config.kanban_stages) \ {ret[p].stage} :
                  ret[p].id \notin IdsOf(ListStories(s2))

C4_Witness ==
    \E p \in Procs : pc[p] = "done" /\ ret[p].op = "create_story" /\ ret[p].ok
                     /\ ret[p].stage = "testing"

\* C5: after a successful move_story(id, T), whatever the prior stage,
\* list_stories() holds exactly one record for id, its stage is T, and the
\* only stage link of id is the one in T.
C5_MovedToTarget ==
    \A p \in Procs :
        (pc[p] = "done" /\ ret[p].op = "move_story" /\ ret[p].ok) =>
            /\ {r.stage : r \in {x \in ListStories("") : x.id = ret[p].id}} = {ret[p].stage}
            /\ Cardinality({x \in ListStories("") : x.id = ret[p].id}) = 1
            /\ LinksOf(ret[p].id) = {MkLink(ret[p].stage, ret[p].id)}

C5_Witness ==
    \E p \in Procs : pc[p] = "done" /\ ret[p].op = "move_story" /\ ret[p].ok
                     /\ ret[p].removed = <<"planning">> /\ ret[p].stage = "testing"

\* C6: after a successful delete_story(id) the story file and every stage
\* link named for id are gone, every later list_stories, with or without a
\* stage filter, omits id, and another delete_story(id) returns the not-found
\* failure and changes nothing on disk.
C6_Gone ==
    /\ \A id \in deleted :
          /\ id \notin DOMAIN stories
          /\ LinksOf(id) = {}
          /\ \A stage \in StageInputs \cup {""} : id \notin IdsOf(ListStories(stage))
    /\ \A p \in Procs :
          (pc[p] = "done" /\ ret[p].op = "list_stories") =>
              \A k \in 1..Len(ret[p].list) : ret[p].list[k].id \notin deleted

C6_DeleteStory ==
    /\ []C6_Gone
    /\ [][\A p \in Procs :
              (pc[p] = "idle" /\ pc'[p] # "idle" /\ StepOp(p) = "delete_story") =>
                  \A id \in deleted :
                      DeleteStoryStart(p, id) =>
                          /\ ret'[p] = Result("delete_story", FALSE, "not_found", id, "")
                          /\ pc'[p] = "done"
                          /\ fs' = fs ]_vars

C6_Witness ==
    \E p \in Procs : /\ pc[p] = "done"
                     /\ ret[p].op = "delete_story" /\ ret[p].msg = "not_found"
                     /\ ret[p].id \in deleted

\* C7 as claimed: after any sequence of completed create_story, move_story and
\* delete_story operations, failed ones included, every story whose file
\* exists is linked in exactly one stage directory.
C7_ExactlyOneStage ==
    AllIdle => \A id \in DOMAIN stories : Cardinality(LinksOf(id)) = 1

\* C7 as amended: after any sequence of completed operations, failed ones
\* included, every story whose file exists is linked in at most one stage
\* directory, and in exactly one if no filesystem call has failed.
C7_AtMostOneExactlyOneWithoutFaults ==
    AllIdle => \A id \in DOMAIN stories :
                  /\ Cardinality(LinksOf(id)) <= 1
                  /\ faults = 0 => Cardinality(LinksOf(id)) = 1

C7_Witness ==
    /\ AllIdle
    /\ \E p \in Procs : ret[p].op = "create_story" /\ ~ret[p].ok /\ ret[p].msg = "fs_error"
    /\ \E id \in DOMAIN stories : LinksOf(id) = {}
    /\ \E id \in DOMAIN stories : Cardinality(LinksOf(id)) = 1

\* C8: create_project_structure called when the state directory exists
\* returns the 'already exists' failure and changes nothing on disk.
C8_CreateTwice ==
    [][ \A p \in Procs :
           (/\ pc[p] = "idle"
            /\ <<pc[p], loc[p], ret[p]>>' # <<pc[p], loc[p], ret[p]>>
            /\ StepOp(p) = "create_project"
            /\ filter_dir) =>
               /\ ret'[p] = Result("create_project", FALSE, "already_exists", NoId, "")
               /\ pc'[p] = "done"
               /\ fs' = fs ]_vars

C8_Witness ==
    \E p \in Procs : /\ pc[p] = "done"
                     /\ ret[p].op = "create_project" /\ ret[p].msg = "already_exists"
                     /\ DOMAIN stories # {} /\ links # {}
                     /\ config.last_story_number > 0

C11_ShortCircuit ==
    [][ \A p \in Procs :
           (/\ pc[p] = "idle"
            /\ StoryManagerStep(p)
            /\ (~filter_dir \/ ~stories_dir \/ ~kanban_dir)) =>
               /\ pc'[p] = "done"
               /\ fs' = fs
               /\ ~ret'[p].ok /\ ~ret'[p].raised
               /\ ret'[p].list = << >>
               /\ ret'[p].op \in {"create_story", "delete_story"} =>
                     ret'[p].msg = (IF ~filter_dir THEN "no_project" ELSE "missing_dir")
               /\ ret'[p].op = "get_project_config" => ret'[p].msg = "null" ]_vars

C11_Witness ==
    \E p \in Procs : /\ pc[p] = "done"
                     /\ ret[p].op = "create_story" /\ ret[p].msg = "missing_dir"
                     /\ filter_dir /\ kanban_dir /\ ~stories_dir

\* the stage list of the configuration record: the list in the file when the
\* file holds one, the fixed default otherwise
ConfiguredStages ==
    IF config.state = "valid" /\ "kanban_stages" \in config.keys
    THEN config.kanban_stages
    ELSE DefaultStages

\* the stored counter, 0 when the file holds none
StoredCounter(c) ==
    IF c.state = "valid" /\ "last_story_number" \in c.keys THEN c.last_story_number ELSE 0

\* C12: create_story with a stage that is not in the configured kanban_stages
\* list (the list of the configuration record, not the fixed default) returns
\* the invalid-stage failure and allocates no id: last_story_number is
\* unchanged and no story file or stage link is made; a stage of the
\* configured list is not rejected.
C12_InvalidStage ==
    [][ \A p \in Procs :
           (/\ pc[p] = "idle"
            /\ <<pc[p], loc[p], ret[p]>>' # <<pc[p], loc[p], ret[p]>>
            /\ StepOp(p) = "create_story"
            /\ filter_dir /\ stories_dir /\ kanban_dir) =>
               /\ pc'[p] = "cs_load" => loc'[p].stage \in Range(ConfiguredStages)
               /\ (pc'[p] = "done" /\ ~ret'[p].raised) =>
                     /\ ret'[p] = Result("create_story", FALSE, "invalid_stage", NoId,
                                         ret'[p].stage)
                     /\ ret'[p].stage \notin Range(ConfiguredStages)
               /\ StoredCounter(config') = StoredCounter(config)
               /\ stories' = stories /\ links' = links /\ issued' = issued ]_vars

C12_Witness ==
    \E p \in Procs : /\ pc[p] = "done"
                     /\ ret[p].op = "create_story" /\ ret[p].msg = "invalid_stage"
                     /\ ret[p].stage = "planning"
                     /\ config.state = "valid" /\ config.kanban_stages = CustomStages
                     /\ DOMAIN stories # {}

\* C13: move fails without touching any stage link when the target stage is
\* not in the configured stage list or when the story file does not exist;
\* the stage check comes first (a call that fails both reports the stage),
\* and both checks precede the first link removal.
C13_MoveChecks ==
    /\ [](\A p \in Procs :
            pc[p] \in {"mv_links", "mv_link"} =>
                /\ loc[p].stage \in Range(loc[p].cfg.kanban_stages)
                /\ loc[p].removed = << >> => StoryFileExists(loc[p].id))
    /\ [][ \A p \in Procs :
             (/\ pc[p] = "idle"
              /\ <<pc[p], loc[p], ret[p]>>' # <<pc[p], loc[p], ret[p]>>
              /\ StepOp(p) = "move_story") =>
                 /\ links' = links /\ stories' = stories
                 /\ pc'[p] # "done" =>
                       /\ loc'[p].stage \in Range(ConfiguredStages)
                       /\ StoryFileExists(loc'[p].id)
                 /\ (pc'[p] = "done" /\ ret'[p].msg = "invalid_stage") =>
                       ret'[p].stage \notin Range(ConfiguredStages)
                 /\ (pc'[p] = "done" /\ ret'[p].msg = "not_found") =>
                       ~StoryFileExists(ret'[p].id)
                 /\ \A id \in IdInputs, target \in StageInputs :
                       (/\ filter_dir /\ stories_dir /\ kanban_dir
                        /\ faults' = faults
                        /\ target \notin Range(ConfiguredStages)
                        /\ MoveStart(p, id, target)) =>
                            ret'[p] = Result("move_story", FALSE, "invalid_stage", NoId,
                                             target) ]_vars

C13_Witness ==
    \E p \in Procs : /\ pc[p] = "done"
                     /\ ret[p].op = "move_story" /\ ret[p].msg = "invalid_stage"
                     /\ links # {}
                     /\ \E id \in IdInputs : ~StoryFileExists(id)

\* a step of caller p in which a write of the configuration file fails: the
\* save of the counter update (cs_save) or the write of the defaults for an
\* absent file by a configuration load
ConfigWriteFails(p) ==
    /\ faults' = faults + 1
    /\ \/ pc[p] = "cs_save"
       \/ /\ pc[p] = "idle"
          /\ config.state = "absent"
          /\ StepOp(p) \in {"create_story", "get_project_config"}

InAllocation == {"cs_save", "cs_write", "cs_link"}

\* C15: when two create_story calls interleave so that both load the
\* configuration before either saves it (no save falls between the two
\* loads), both have read the same last_story_number and both obtain the
\* same number and the same story id, so that the id is issued twice;
\* nothing in the code prevents the interleaving.
C15_RaceSameId ==
    \A p, q \in Procs :
        (/\ p # q
         /\ pc[p] \in InAllocation /\ pc[q] \in InAllocation
         /\ loc[p].saves = loc[q].saves) =>
            /\ loc[p].cfg.last_story_number = loc[q].cfg.last_story_number
            /\ (pc[p] # "cs_save" /\ pc[q] # "cs_save") =>
                  /\ loc[p].id = loc[q].id
                  /\ loc[p].id.num = loc[p].cfg.last_story_number + 1
                  /\ \E i, j \in 1..Len(issued) :
                        i # j /\ issued[i] = loc[p].id.num /\ issued[j] = loc[p].id.num
                  /\ config.last_story_number = loc[p].id.num

\* both callers hold the same id and it was issued twice
C15_Witness ==
    \E p, q \in Procs :
        /\ p # q
        /\ pc[p] = "cs_link" /\ pc[q] = "cs_write"
        /\ loc[p].id = loc[q].id
        /\ \E i, j \in 1..Len(issued) : i # j /\ issued[i] = issued[j]

\* a string of exactly five characters without a lower-case letter
IsPrefix(x) == Len(x) = 5 /\ \A i \in 1..Len(x) : x[i] \notin Range(LowerLetters)

\* C16: for every project name, the empty name and names made only of
\* hyphens, underscores and digits included, the derived prefix has exactly
\* five characters and no lower-case letter, and the derivations of
\* ProjectManager (the record create_project_structure writes) and of
\* StoryManager (the defaults of the configuration load) give the same value.
C16_PrefixShape ==
    /\ config.state = "valid" =>
          /\ IsPrefix(config.prefix)
          /\ config.prefix = ProjectGeneratePrefix(project_name)
          /\ config.prefix = GeneratePrefix(project_name)
    /\ \A p \in Procs :
          (pc[p] = "done" /\ ret[p].op = "get_project_config" /\ ret[p].ok) =>
              /\ IsPrefix(ret[p].cfg.prefix)
              /\ ret[p].cfg.prefix = config.prefix

\* a name made only of hyphens and digits: the record written by
\* create_project_structure and the one returned by the load
C16_Witness ==
    \E p \in Procs : /\ pc[p] = "done"
                     /\ ret[p].op = "get_project_config" /\ ret[p].ok
                     /\ project_name = <<"-", "7", "-">>
                     /\ readme
                     /\ ret[p].cfg.prefix = <<"X", "X", "X", "X", "X">>

\* the reference function of the prefix derivation: s without its maximal
\* trailing run of hyphens, underscores and digits ...
RefStrip(s) ==
    LET keep == {k \in 1..Len(s) : ~(s[k] = "-" \/ s[k] = "_" \/ s[k] \in Digits)}
    IN  IF keep = {} THEN << >>
        ELSE SubSeq(s, 1, CHOOSE k \in keep : \A j \in keep : j <= k)

\* ... then its first five characters upper-cased, or all of it upper-cased
\* and padded on the right with "X" to five characters
RefPrefix(name) ==
    LET r == RefStrip(name)
    IN  IF Len(r) >= 5
        THEN UpperStr(SubSeq(r, 1, 5))
        ELSE UpperStr(r) \o [i \in 1..(5 - Len(r)) |-> "X"]

\* C17: the derived prefix equals the reference function of the project
\* name: the maximal trailing run of hyphens, underscores and digits removed,
\* then the first five characters upper-cased or the whole upper-cased and
\* padded with "X" to five characters.
C17_PrefixIsReference ==
    /\ config.state = "valid" => config.prefix = RefPrefix(project_name)
    /\ \A p \in Procs :
          (pc[p] = "done" /\ ret[p].op = "get_project_config" /\ ret[p].ok) =>
              ret[p].cfg.prefix = RefPrefix(project_name)

\* the title the claim expects back: the title itself when it holds no ": ",
\* the part after its first ": " when it does
ClaimedTitle(title) ==
    IF SeparatorAt(title) = {} THEN title
    ELSE SubSeq(title, (CHOOSE i \in SeparatorAt(title) : \A k \in SeparatorAt(title) : i <= k) + 2,
                Len(title))

\* the titles list_stories reports for story id
ListedTitles(id) == {r.title : r \in {x \in ListStories("") : x.id = id}}

\* C18 as claimed: the title extracted from the file that create_story(title)
\* wrote is the title itself when the title holds no ": ", and the part of the
\* title after its first ": " when it does.
C18_RoundTripAsClaimed ==
    \A p \in Procs :
        (pc[p] = "done" /\ ret[p].op = "create_story" /\ ret[p].ok) =>
            ListedTitles(ret[p].id) = {ClaimedTitle(ret[p].title)}

\* the first line of title without the white space at its end
KeptTitle(title) == StripRight(FirstLine(title))

\* C18 as amended: the title extracted from the file that create_story(title)
\* wrote is the first line of the title without the white space at its end,
\* whether or not the title holds ": " (so a one-line title that does not end
\* in white space comes back unchanged); when that first line is empty or all
\* white space, the extraction gives the story identifier followed by ":".
C18_RoundTrip ==
    \A p \in Procs :
        (pc[p] = "done" /\ ret[p].op = "create_story" /\ ret[p].ok) =>
            ListedTitles(ret[p].id) =
                {IF KeptTitle(ret[p].title) = << >>
                 THEN IdString(ret[p].id) \o <<":">>
                 ELSE KeptTitle(ret[p].title)}

C18_Witness ==
    \E p \in Procs : /\ pc[p] = "done"
                     /\ ret[p].op = "create_story" /\ ret[p].ok
                     /\ ret[p].title = <<"a", ":", " ", "a">>
                     /\ ListedTitles(ret[p].id) = {<<"a", ":", " ", "a">>}

\* the defaults of a project directory: its name, the prefix derived from the
\* name, counter 0 and the five stages
DirectoryDefaults ==
    [state |-> "valid",
     keys |-> {"project_name", "prefix", "last_story_number", "kanban_stages"},
     project_name |-> project_name,
     prefix |-> GeneratePrefix(project_name),
     last_story_number |-> 0,
     kanban_stages |-> <<"planning", "in-progress", "testing", "pr", "complete">>]

\* C19: a configuration load that finds no config file and returns, returns
\* the defaults (name of the directory, derived prefix, counter 0, the five
\* stages) and has written them: after the call the config file exists with
\* those values.  Every step of a story operation that brings the config file
\* into existence writes those values.
C19_AbsentLoadWritesDefaults ==
    [][\A p \in Procs :
          /\ (/\ config.state = "absent"
              /\ pc[p] = "idle" /\ pc'[p] = "done"
              /\ ret'[p].op = "get_project_config" /\ ret'[p].ok) =>
                 /\ ret'[p].cfg = DirectoryDefaults
                 /\ config' = DirectoryDefaults
          /\ (config.state = "absent" /\ config' # config /\ StoryManagerStep(p)) =>
                 config' = DirectoryDefaults]_vars

\* get_project_config has returned the defaults in a project whose creation
\* stopped before it wrote the config file, and the file holds them
C19_Witness ==
    \E p \in Procs : /\ pc[p] = "done"
                     /\ ret[p].op = "get_project_config" /\ ret[p].ok
                     /\ ret[p].cfg = DirectoryDefaults
                     /\ config = DirectoryDefaults
                     /\ stage_dirs # Range(DefaultStages)

\* the value of key in configuration record c
ConfigValue(c, key) ==
    CASE key = "project_name" -> c.project_name
      [] key = "prefix" -> c.prefix
      [] key = "last_story_number" -> c.last_story_number
      [] key = "kanban_stages" -> c.kanban_stages

\* C20: a configuration load of a config file that exists and parses returns,
\* for every key, the value of the file when the file has the key and the
\* default value when it has not; no value of the file is replaced by a
\* default, and the file is left as it is.
C20_FieldMerge ==
    [][\A p \in Procs :
          (/\ config.state = "valid"
           /\ pc[p] = "idle" /\ pc'[p] = "done"
           /\ ret'[p].op = "get_project_config" /\ ret'[p].ok) =>
              /\ \A key \in {"project_name", "prefix", "last_story_number", "kanban_stages"} :
                    ConfigValue(ret'[p].cfg, key) =
                        IF key \in config.keys THEN ConfigValue(config, key)
                        ELSE ConfigValue(DirectoryDefaults, key)
              /\ config' = config]_vars

\* get_project_config has returned a configuration merged from a file that
\* holds only a custom stage list: the custom stages and the default prefix
C20_Witness ==
    \E p \in Procs : /\ pc[p] = "done"
                     /\ ret[p].op = "get_project_config" /\ ret[p].ok
                     /\ config.state = "valid"
                     /\ config.keys = {"kanban_stages"}
                     /\ ret[p].cfg.kanban_stages = CustomStages
                     /\ ret[p].cfg.prefix = GeneratePrefix(project_name)
                     /\ ret[p].cfg.kanban_stages # DefaultStages

\* C21: a configuration load of a config file that exists but cannot be parsed
\* or read returns the computed defaults (counter 0) and leaves the file as it
\* is: get_project_config returns the defaults, and the load of create_story
\* continues with the defaults, without a change of the file.
C21_CorruptLoad ==
    [][\A p \in Procs :
          /\ (/\ config.state = "corrupt"
              /\ EnsureFilterStructure = "ok"
              /\ pc[p] = "idle" /\ pc'[p] = "done"
              /\ ret'[p].op = "get_project_config") =>
                 /\ ret'[p].ok
                 /\ ret'[p].cfg = DirectoryDefaults
                 /\ ret'[p].cfg.last_story_number = 0
                 /\ config' = config
          /\ (/\ config.state = "corrupt"
              /\ pc[p] \in {"idle", "cs_load"}
              /\ pc'[p] # pc[p]
              /\ StepOp(p) = "create_story") =>
                 /\ config' = config
                 /\ pc'[p] = "cs_save" => loc'[p].cfg = DirectoryDefaults]_vars

\* get_project_config has returned the defaults for a file that cannot be
\* parsed, and the file is still the one that cannot be parsed
C21_Witness ==
    \E p \in Procs : /\ pc[p] = "done"
                     /\ ret[p].op = "get_project_config" /\ ret[p].ok
                     /\ ret[p].cfg = DirectoryDefaults
                     /\ config = CorruptConfig

\* the position of stage s in sequence ss (0 when it is not in it)
StageIndex(ss, s) ==
    IF s \in Range(ss) THEN CHOOSE i \in 1..Len(ss) : ss[i] = s /\ \A k \in 1..(i - 1) : ss[k] # s
    ELSE 0

\* C22: list_stories never raises, and returns the empty sequence when the
\* precondition check fails or a filesystem call fails; without a stage filter
\* its records come stage by stage in the order of the configured
\* kanban_stages, and every record names the stage directory that holds the
\* link it was found by.
C22_ListOrder ==
    \A p \in Procs :
        (pc[p] = "done" /\ ret[p].op = "list_stories") =>
            /\ ~ret[p].raised
            /\ (~ret[p].ok \/ EnsureFilterStructure # "ok") => ret[p].list = << >>
            /\ \A k \in 1..Len(ret[p].list) :
                  /\ MkLink(ret[p].list[k].stage, ret[p].list[k].id) \in links
                  /\ ret[p].list[k].stage \in stage_dirs
            /\ ret[p].stage = "" =>
                  \A i, j \in 1..Len(ret[p].list) :
                      i < j => /\ StageIndex(ConfiguredStages, ret[p].list[i].stage) > 0
                               /\ StageIndex(ConfiguredStages, ret[p].list[i].stage)
                                     <= StageIndex(ConfiguredStages, ret[p].list[j].stage)

\* list_stories() has returned two records in the order of a configured stage
\* list that differs from the default: "testing" before "planning"
C22_Witness ==
    \E p \in Procs : /\ pc[p] = "done"
                     /\ ret[p].op = "list_stories" /\ ret[p].stage = ""
                     /\ ConfiguredStages = ReorderedStages
                     /\ Len(ret[p].list) = 2
                     /\ ret[p].list[1].stage = "testing"
                     /\ ret[p].list[2].stage = "planning"

\* a step in which create_story fails after its id was allocated, with the
\* part of the claim that holds in every case: a (false, message) failure,
\* the counter left at the allocated number, the story files and the stage
\* links left as they are, a story file that was written still there
FailsAfterAllocation(p) ==
    /\ pc[p] \in {"cs_write", "cs_link"}
    /\ pc'[p] = "done" /\ ~ret'[p].ok

NothingRolledBack(p) ==
    /\ ret'[p] = Result("create_story", FALSE, "fs_error", NoId, "")
    /\ config' = config
    /\ config'.last_story_number = loc[p].id.num
    /\ stories' = stories /\ links' = links
    /\ pc[p] = "cs_link" => (stories_dir' /\ loc[p].id \in DOMAIN stories')

C24_DeleteOrder ==
    [][\A p \in Procs :
          (pc[p] # "done" /\ <<pc[p], loc[p], ret[p]>>' # <<pc[p], loc[p], ret[p]>>
           /\ StepOp(p) = "delete_story") =>
              /\ StoredCounter(config') = StoredCounter(config)
              /\ links' # links =>
                    /\ pc[p] = "ds_links"
                    /\ stories' = stories /\ loc[p].id \in DOMAIN stories
                    /\ \E s \in Range(ConfiguredStages) :
                          /\ links' = links \ {MkLink(s, loc[p].id)}
                          /\ \A k \in 1..(StageIndex(ConfiguredStages, s) - 1) :
                                ~StageLinkExists(ConfiguredStages[k], loc[p].id)
                          /\ pc'[p] # "done" => loc'[p].removed = Append(loc[p].removed, s)
              /\ stories' # stories =>
                    /\ pc[p] = "ds_file" /\ ret'[p].ok /\ links' = links
                    /\ stories' = WithoutStory(loc[p].id)
                    /\ \A s \in Range(ConfiguredStages) : ~StageLinkExists(s, loc[p].id)
                    /\ ret'[p].removed = loc[p].removed
              /\ (pc[p] \in {"ds_links", "ds_file"} /\ pc'[p] = "done" /\ ~ret'[p].ok) =>
                    /\ ret'[p] = Result("delete_story", FALSE, "fs_error", NoId, "")
                    /\ links' = links /\ stories' = stories
                    /\ loc[p].id \in DOMAIN stories'
                    /\ \A s \in Range(loc[p].removed) : MkLink(s, loc[p].id) \notin links'
                    /\ config' = config]_vars

\* delete_story has failed after it removed the link of the first of two
\* stages: that link is gone, the later link and the story file are there
C24_Witness ==
    \E p \in Procs, id \in DOMAIN stories :
        /\ pc[p] = "done"
        /\ ret[p].op = "delete_story" /\ ret[p].msg = "fs_error"
        /\ id.num = 1
        /\ links = {MkLink("complete", id)}
        /\ faults = 1
        /\ deleted = {}

\* C25: a move that fails while it makes the link in the target stage, after
\* it removed the old links, reports the failure and does not put the old
\* link back: the story file still exists, the story is linked in no stage,
\* and list_stories, with or without a stage filter, omits it.
C25_MoveNotRestored ==
    [][\A p \in Procs :
          (pc[p] = "mv_link" /\ pc'[p] = "done" /\ ~ret'[p].ok) =>
              /\ ret'[p] = Result("move_story", FALSE, "fs_error", NoId, "")
              /\ links' = links /\ stories' = stories
              /\ stories_dir' /\ loc[p].id \in DOMAIN stories'
              /\ \A l \in links' : l.id # loc[p].id
              /\ \A s \in Range(loc[p].removed) : MkLink(s, loc[p].id) \notin links'
              /\ \A stage \in StageInputs \cup {""} :
                    loc[p].id \notin IdsOf(ListStories(stage))']_vars

\* a move has failed at the link in the target stage after it removed the
\* link of the only story: the file is there, no stage links it
C25_Witness ==
    \E p \in Procs, id \in DOMAIN stories :
        /\ pc[p] = "done"
        /\ ret[p].op = "move_story" /\ ret[p].msg = "fs_error"
        /\ stage_dirs = Range(DefaultStages)
        /\ issued = <<1>> /\ faults = 1
        /\ \A l \in links : l.id # id
        /\ id \notin IdsOf(ListStories(""))

\* every part of the state directory that exists has all earlier parts of
\* the order state directory, kanban directory, stories directory, the five
\* stage directories, config record, README
PartsInOrder ==
    /\ kanban_dir => filter_dir
    /\ stories_dir => kanban_dir
    /\ stage_dirs # {} => stories_dir
    /\ \A i \in 1..5 :
          <<"planning", "in-progress", "testing", "pr", "complete">>[i] \in stage_dirs =>
              \A k \in 1..(i - 1) :
                  <<"planning", "in-progress", "testing", "pr", "complete">>[k] \in stage_dirs
    /\ config.state # "absent" =>
          stage_dirs = {"planning", "in-progress", "testing", "pr", "complete"}
    /\ readme => config.state # "absent"

\* C26: create_project_structure on a location without a state directory
\* makes the parts in the order state directory, kanban directory, stories
\* directory, the five stage directories, config record (counter 0), README:
\* in every state of the call and in the state it returns in, a part exists
\* only if all earlier parts exist; a step of the call only adds parts; on a
\* filesystem error it returns the failure and leaves what it made; on
\* success every part exists.
C26_CreationOrder ==
    /\ [](\A p \in Procs :
            (loc[p].op = "create_project"
             \/ (pc[p] = "done" /\ ret[p].op = "create_project"
                 /\ ret[p].msg \in {"fs_error", "created"})) =>
                /\ PartsInOrder
                /\ config.state # "absent" =>
                      config.state = "valid" /\ config.last_story_number = 0
                /\ (pc[p] = "done" /\ ret[p].ok) =>
                      /\ readme /\ config.state = "valid" /\ filter_dir
                      /\ stage_dirs = {"planning", "in-progress", "testing", "pr", "complete"})
    /\ [][\A p \in Procs :
            (loc[p].op = "create_project" /\ pc'[p] # pc[p]) =>
                /\ (filter_dir => filter_dir') /\ (kanban_dir => kanban_dir')
                /\ (stories_dir => stories_dir') /\ stage_dirs \subseteq stage_dirs'
                /\ (config.state # "absent" => config' = config) /\ (readme => readme')
                /\ (pc'[p] = "done" /\ ~ret'[p].ok) =>
                      /\ ret'[p] = Result("create_project", FALSE, "fs_error", NoId, "")
                      /\ fs' = fs]_vars

\* create_project_structure has failed between two stage directories: the
\* earlier parts are there, the later ones are not
C26_Witness ==
    \E p \in Procs : /\ pc[p] = "done"
                     /\ ret[p].op = "create_project" /\ ret[p].msg = "fs_error"
                     /\ filter_dir /\ kanban_dir /\ stories_dir
                     /\ stage_dirs = {"planning", "in-progress"}
                     /\ config.state = "absent" /\ ~readme

StoredPrefix ==
    IF config.state = "valid" /\ "prefix" \in config.keys
    THEN config.prefix
    ELSE GeneratePrefix(project_name)

\* C28: the allocation stores the incremented counter before the story file
\* is written, and builds the id from the prefix of the configuration record,
\* not from a prefix derived again; so, as long as the config file is not
\* changed from outside, the number of every story file is at most the
\* stored last_story_number.
C28_CounterBeforeFile ==
    /\ [](~edited =>
            \A id \in DOMAIN stories :
                config.state = "valid" /\ id.num <= config.last_story_number)
    /\ [][\A p \in Procs :
            /\ (pc[p] = "cs_save" /\ pc'[p] = "cs_write") =>
                  /\ loc'[p].id.num = StoredCounter(config) + 1
                  /\ loc'[p].id.prefix = StoredPrefix
                  /\ config'.state = "valid"
                  /\ config'.last_story_number = loc'[p].id.num
                  /\ config'.prefix = loc'[p].id.prefix
                  /\ stories' = stories
            /\ (pc[p] = "cs_write" /\ stories' # stories) =>
                  /\ DOMAIN stories' = DOMAIN stories \cup {loc[p].id}
                  /\ config' = config
                  /\ config.state = "valid"
                  /\ config.last_story_number = loc[p].id.num]_vars

\* a story created after the config file was given a custom prefix and
\* counter: its id has the stored prefix and the number after the stored one
C28_Witness ==
    \E id \in DOMAIN stories :
        /\ id.prefix = CustomPrefix /\ id.prefix # GeneratePrefix(project_name)
        /\ id.num = CustomCounter + 1
        /\ config.state = "valid" /\ config.last_story_number = id.num

\* C29: between the create_story that issued an id and the delete_story that
\* removes it, exactly one story file of the id exists: a step of move or of
\* list_stories leaves every story file and last_story_number as they are,
\* and create_story removes no story file and writes only a file that did
\* not exist.
C29_StoryFileStable ==
    [][\A p \in Procs :
          (pc[p] # "done" /\ <<pc[p], loc[p], ret[p]>>' # <<pc[p], loc[p], ret[p]>>) =>
              /\ StepOp(p) \in {"move_story", "list_stories"} =>
                    /\ stories' = stories
                    /\ StoredCounter(config') = StoredCounter(config)
              /\ StepOp(p) = "create_story" =>
                    /\ DOMAIN stories \subseteq DOMAIN stories'
                    /\ \A id \in DOMAIN stories : stories'[id] = stories[id]
                    /\ (pc[p] = "cs_write" /\ pc'[p] = "cs_link") =>
                          /\ loc[p].id \notin DOMAIN stories
                          /\ DOMAIN stories' = DOMAIN stories \cup {loc[p].id}]_vars

\* C30: every record list_stories returns names a story whose file exists
\* when the call is made, and the entry it was made from is a symlink
\* <id>.md of the stage directory: a dangling link and a regular file are
\* not listed.
C30_ListedStoriesExist ==
    [][\A p \in Procs :
          (pc[p] = "idle" /\ pc'[p] = "done" /\ ret'[p].op = "list_stories") =>
              \A i \in DOMAIN ret'[p].list :
                  LET r == ret'[p].list[i]
                  IN  /\ StoryFileExists(r.id)
                      /\ MkLink(r.stage, r.id) \in links
                      /\ MkLink(r.stage, r.id) \notin plain
                      /\ r.title = ExtractTitle(stories[r.id])]_vars

\* list_stories("complete") has returned while the directory of the stage
\* holds a dangling link (its story was deleted under a stage list without
\* "complete") and a regular file named like a story that exists
C30_Witness ==
    \E p \in Procs :
        /\ pc[p] = "done" /\ ret[p].op = "list_stories" /\ ret[p].ok
        /\ ret[p].stage = "complete"
        /\ MkLink("complete", FirstStory) \in links /\ ~StoryFileExists(FirstStory)
        /\ MkLink("complete", SecondStory) \in plain /\ StoryFileExists(SecondStory)

\* C31: when the configuration file is absent or cannot be parsed as
\* create_story is invoked, in a project that has issued numbers before, the
\* allocation starts from the default counter 0: the call issues number 1
\* and writes a configuration record with last_story_number = 1, whatever
\* story files exist.
C31_ResetCounter ==
    [][\A p \in Procs :
          (pc[p] \in {"cs_save", "cs_write", "cs_link"}
             /\ loc[p].found \in {"absent", "corrupt"}) =>
              /\ pc[p] = "cs_save" => NextNumber(loc[p].cfg) = 1
              /\ (pc[p] = "cs_save" /\ pc'[p] = "cs_write") =>
                    /\ loc'[p].id = MkId(GeneratePrefix(project_name), 1)
                    /\ issued' = Append(issued, 1)
                    /\ config'.state = "valid"
                    /\ config'.last_story_number = 1
              /\ (pc'[p] = "done" /\ ret'[p].ok) =>
                    ret'[p].id = MkId(GeneratePrefix(project_name), 1)]_vars

\* the file was unparseable when create_story was invoked, the story file of
\* number 1 exists, and the call has allocated number 1 again and stored 1
C31_Witness ==
    \E p \in Procs :
        /\ pc[p] = "cs_write" /\ loc[p].found = "corrupt"
        /\ Len(issued) > 1
        /\ loc[p].id.num = 1 /\ loc[p].id \in DOMAIN stories
        /\ config.state = "valid" /\ config.last_story_number = 1

\* every part create_project_structure makes exists
CompleteProject ==
    /\ filter_dir /\ kanban_dir /\ stories_dir
    /\ stage_dirs = Range(DefaultStages)
    /\ config.state = "valid"
    /\ readme

\* the state directory exists, a part is missing and no
\* create_project_structure is running: one has failed partway
PartialProject ==
    /\ filter_dir
    /\ ~CompleteProject
    /\ \A p \in Procs : pc[p] \notin Range(CreationOrder)

\* C32: after create_project_structure has failed partway, a retry returns
\* the 'already exists' failure and changes nothing on disk; while the
\* stories or the kanban directory is missing every StoryManager operation
\* fails its precondition check and changes nothing; and the project stays
\* partial until a delete_project_structure removes the state directory, so
\* a complete project comes only from a deletion followed by a creation.
C32_PartialStaysPartial ==
    [][PartialProject =>
          /\ \A p \in Procs :
                (pc[p] = "idle" /\ <<pc[p], loc[p], ret[p]>>' # <<pc[p], loc[p], ret[p]>>) =>
                    /\ StepOp(p) = "create_project" =>
                          /\ pc'[p] = "done"
                          /\ ret'[p] = Result("create_project", FALSE, "already_exists", NoId, "")
                          /\ fs' = fs
                    /\ (StepOp(p) \in StoryOps /\ (~stories_dir \/ ~kanban_dir)) =>
                          /\ pc'[p] = "done"
                          /\ ~ret'[p].ok /\ ret'[p].list = << >>
                          /\ fs' = fs
          /\ \/ PartialProject'
             \/ /\ ~filter_dir'
                /\ \E p \in Procs : pc[p] = "idle" /\ pc'[p] = "done"
                                    /\ ret'[p].op = "delete_project" /\ ret'[p].ok]_vars

\* a retry of create_project_structure has returned 'already exists' in a
\* project whose creation failed at the stories directory
C32_Witness ==
    \E p \in Procs :
        /\ pc[p] = "done"
        /\ ret[p].op = "create_project" /\ ret[p].msg = "already_exists"
        /\ PartialProject /\ kanban_dir /\ ~stories_dir

\* caller p is about to make the link of its move (it has passed the removal
\* loop) and now makes it
MakesMoveLink(p) == pc[p] = "mv_link" /\ pc'[p] = "done"

\* C33: two move commands for the same story with different targets, run at
\* once.  When both have passed the removal loop the story is linked in no
\* stage, and neither looks again: the first makes its link, the link stays
\* while the second (whose loop did not remove a link from that stage) is
\* still to make its own, and the second makes its link too, so the story
\* is linked in two stage directories.  As long as one of the callers has
\* not started, the story is in at most one stage.
C33_RacingMoves ==
    /\ [](\A p, q \in Procs :
            (p # q /\ pc[q] = "mv_link" /\ loc[q].op = "move_story") =>
                /\ (pc[p] = "mv_link" /\ loc[p].id = loc[q].id) => LinksOf(loc[q].id) = {}
                /\ (pc[p] = "done" /\ ret[p].op = "move_story" /\ ret[p].ok
                    /\ ret[p].id = loc[q].id
                    /\ ret[p].stage \notin Range(loc[q].removed)) =>
                       MkLink(ret[p].stage, ret[p].id) \in links)
    /\ []((\E q \in Procs : pc[q] = "idle") => C3_AtMostOneStage)
    /\ [][\A p, q \in Procs :
             (p # q /\ MakesMoveLink(p) /\ loc[p].op = "move_story") =>
                 /\ (pc[q] = "mv_link" /\ loc[q].id = loc[p].id
                     /\ loc[q].stage # loc[p].stage) =>
                        /\ ret'[p].ok
                        /\ links' = links \cup {MkLink(loc[p].stage, loc[p].id)}
                        /\ pc'[q] = "mv_link"
                 /\ (pc[q] = "done" /\ ret[q].op = "move_story" /\ ret[q].ok
                     /\ ret[q].id = loc[p].id /\ ret[q].stage # loc[p].stage
                     /\ MkLink(ret[q].stage, ret[q].id) \in links) =>
                        /\ ret'[p].ok
                        /\ {MkLink(ret[q].stage, loc[p].id), MkLink(loc[p].stage, loc[p].id)}
                              \subseteq links']_vars

\* both move commands have returned success for the same story and the story
\* is linked in the two target stages
C33_Witness ==
    \E p, q \in Procs :
        /\ p # q
        /\ pc[p] = "done" /\ ret[p].op = "move_story" /\ ret[p].ok
        /\ pc[q] = "done" /\ ret[q].op = "move_story" /\ ret[q].ok
        /\ ret[p].id = ret[q].id /\ ret[p].stage # ret[q].stage
        /\ LinksOf(ret[p].id) = {MkLink(ret[p].stage, ret[p].id), MkLink(ret[q].stage, ret[q].id)}

\* the keys the records of ProjectManager and StoryManager are compared on
\* (created_at is a timestamp)
ComparedKeys == {"project_name", "prefix", "last_story_number", "kanban_stages"}

\* C34: the record create_project_structure writes has, for project_name,
\* prefix, last_story_number and kanban_stages, the values of the defaults
\* that a configuration load of StoryManager computes for the same
\* directory, and last_story_number is 0; so the first allocation of
\* create_story in the project gives the derived prefix and number 1,
\* whether the call found the configuration file or not.
C34_SameDefaults ==
    [][\A p \in Procs :
          /\ (pc[p] = "cp_config" /\ config' # config) =>
                /\ config'.state = "valid" /\ config'.keys = ComparedKeys
                /\ \A key \in ComparedKeys :
                      ConfigValue(config', key)
                         = ConfigValue(LoadedConfig(AbsentConfig, project_name), key)
                /\ config'.last_story_number = 0
          /\ (pc[p] = "cs_save" /\ pc'[p] = "cs_write" /\ issued = << >>) =>
                /\ loc[p].found \in {"valid", "absent"}
                /\ loc'[p].id = MkId(GeneratePrefix(project_name), 1)
                /\ loc'[p].id = MkId(ProjectGeneratePrefix(project_name), 1)]_vars

\* create_project_structure failed before it wrote the configuration record,
\* and the first create_story, which found no configuration file, has
\* allocated the id with the derived prefix and number 1
C34_Witness ==
    \E p \in Procs :
        /\ pc[p] = "cs_write" /\ loc[p].found = "absent"
        /\ issued = <<1>> /\ ~readme
        /\ loc[p].id = MkId(ProjectGeneratePrefix(project_name), 1)

(***************************************************************************)
(* Termination.  A call that has started executes its next statement: the  *)
(* interpreter runs one thread per command and no statement of the library *)
(* waits (there is no lock, sleep, prompt or retry loop in stories.py or   *)
(* projects.py), and each filesystem call returns or raises.               *)
(***************************************************************************)
\* the next statement of the call caller p is in
Continue(p) ==
    \/ CpMkdirFilter(p)
    \/ CpMkdirKanban(p)
    \/ CpMkdirStories(p)
    \/ CpMkdirStage(p)
    \/ CpWriteConfig(p)
    \/ CpWriteReadme(p)
    \/ CsLoad(p)
    \/ CsSave(p)
    \/ CsWrite(p)
    \/ CsLink(p)
    \/ DsLinks(p)
    \/ DsFile(p)
    \/ MvLinks(p)
    \/ MvLink(p)

\* the empty directory; one filesystem call fewer than MaxFaults can fail
InitLive == project_name \in ProjectNames /\ InitState /\ faults = MaxFaults - 1

SpecLive == InitLive /\ [][Next]_vars /\ \A p \in SeqProcs : WF_vars(Continue(p))

\* the statements of create_project_structure still to run at label: one per
\* later statement, and one per stage of the loop of lines 59-62 not yet made
PartsLeft(p, label) ==
    LET PartIndex(l) == CHOOSE i \in 1..Len(CreationOrder) : CreationOrder[i] = l
        k == PartIndex(label)
        loop == PartIndex("cp_stage")
    IN  (Len(CreationOrder) + 1 - k)
          + (IF k < loop THEN Len(DefaultStages)
             ELSE IF k = loop THEN Len(DefaultStages) - loc[p].i
             ELSE 0)

\* the iterations the loop over config["kanban_stages"] (stories.py lines
\* 200-206, story_cli.py lines 178-184) still has at index loc[p].i, and
\* the statement after it
LoopLeft(p) == (Len(loc[p].cfg.kanban_stages) + 1 - loc[p].i) + 2

\* an upper bound on the statements caller p still runs in its call
StepsLeft(p) ==
    CASE pc[p] \in Range(CreationOrder) -> PartsLeft(p, pc[p])
      [] pc[p] = "cs_load" -> 4
      [] pc[p] = "cs_save" -> 3
      [] pc[p] = "cs_write" -> 2
      [] pc[p] = "cs_link" -> 1
      [] pc[p] \in {"ds_links", "mv_links"} -> LoopLeft(p)
      [] pc[p] \in {"ds_file", "mv_link"} -> 1
      [] OTHER -> 0

\* C35: a call of create_project_structure, delete_project_structure,
\* create_story, move_story, delete_story or list_stories that has started
\* ends, holding a result or an error; every statement it runs, failing or
\* not, brings it closer to its end (none is run again, none waits), and the
\* number of statements left is never negative.
C35_Terminates ==
    /\ \A p \in SeqProcs : (pc[p] \notin {"idle", "done"}) ~> (pc[p] = "done")
    /\ [](\A p \in SeqProcs : /\ StepsLeft(p) >= 0
                              /\ (pc[p] \notin {"idle", "done"}) => StepsLeft(p) > 0
                              /\ pc[p] = "done" => ret[p] # NoRet)
    /\ [][\A p \in SeqProcs :
            /\ (pc[p] \notin {"idle", "done"}) => StepsLeft(p)' < StepsLeft(p)
            /\ (pc[p] = "idle" /\ pc'[p] # "idle") =>
                  ((pc'[p] \notin {"idle", "done"}) \/ (pc'[p] = "done" /\ ret'[p] # NoRet))]_vars

\* create_project_structure has ended with the filesystem error of a step
\* after the kanban directory was made and before the configuration record
\* was written
C35_Witness ==
    \E p \in SeqProcs :
        /\ pc[p] = "done" /\ ret[p].op = "create_project" /\ ret[p].msg = "fs_error"
        /\ kanban_dir /\ config.state = "absent" /\ faults > 0

=============================================================================
